---- MODULE Spec2Model ----
(***************************************************************************)
(* Swiss QR-bill scanner of invoice_chain_ai: the scan orchestrator        *)
(* scan_qr_code (qr.py), its two decoder wrappers and the payload parser.  *)
(*                                                                         *)
(* Text is a sequence of one-character strings, so that startswith, strip  *)
(* and split are computed as the code computes them.  A Python Optional is *)
(* a sequence of length 0 (None) or 1 (the value).                         *)
(*                                                                         *)
(* Spec is one invocation of scan_qr_code, FairSpec the same run to its    *)
(* end.  ParserSpec runs parse_swiss_qr and its three parse_address calls  *)
(* on texts joined from field lists.  HeuristicSpec runs                   *)
(* find_iban_in_markdown (io_utils.py) on folders of markdown texts.       *)
(* LookupSpec runs get_customer_by_invoice (db) on lists of seed           *)
(* customers, RunSpec is one invocation of run_processing (runners.py),    *)
(* and ConcurrentSpec is two invocations of scan_qr_code side by side.     *)
(***************************************************************************)
EXTENDS Integers, Sequences, FiniteSets, TLC

\* ---------------------------------------------------------------- bounds
MaxPages == 3
MaxImages == 2
MaxResults == 2
MaxFields == 36
MaxFiles == 2
MaxCustomers == 2

\* ------------------------------------------------------- Python Optional
NoneV == <<>>
Some(x) == <<x>>
IsNone(o) == Len(o) = 0
Get(o) == o[1]

\* ------------------------------------------------------------------ text
SPC == <<"S", "P", "C">>
WS == {" ", "\n", "\t", "\r"}

\* str.startswith("SPC")
StartsWithSPC(t) == Len(t) >= 3 /\ SubSeq(t, 1, 3) = SPC

\* str.strip()
RECURSIVE LStrip(_)
LStrip(t) == IF t # <<>> /\ Head(t) \in WS THEN LStrip(Tail(t)) ELSE t

RECURSIVE RStrip(_)
RStrip(t) ==
    IF t # <<>> /\ t[Len(t)] \in WS THEN RStrip(SubSeq(t, 1, Len(t) - 1)) ELSE t

Strip(t) == RStrip(LStrip(t))

\* str.split("\n"): the list of the pieces between the newlines; SplitFrom
\* is the list of the pieces of t[start..]
RECURSIVE SplitFrom(_, _)
SplitFrom(t, start) ==
    LET later == {i \in start..Len(t) : t[i] = "\n"}
    IN  IF later = {} THEN <<SubSeq(t, start, Len(t))>>
        ELSE LET nl == CHOOSE i \in later : \A j \in later : i <= j
             IN  <<SubSeq(t, start, nl - 1)>> \o SplitFrom(t, nl + 1)

Split(t) == SplitFrom(t, 1)

\* the texts a native decoder may report for an image
SPC_A == <<"S", "P", "C", "\n", "0", "2">>
SPC_B == <<"S", "P", "C", "\n", "0", "1", "\n", "1", "\n", "C", "H">>
URL == <<"h", "t", "t", "p">>
Texts == {SPC_A, SPC_B, URL}

RECURSIVE SeqsUpTo(_, _)
SeqsUpTo(S, n) ==
    IF n = 0 THEN {<<>>}
    ELSE LET shorter == SeqsUpTo(S, n - 1)
         IN  shorter \cup {Append(s, x) : s \in {q \in shorter : Len(q) = n - 1}, x \in S}

ResultLists == SeqsUpTo(Texts, MaxResults)

\* ---------------------------------------------------------------- parser
MinFields == 35
DefaultCurrency == <<"C", "H", "F">>
DefaultTrailer == <<"E", "P", "D">>

\* fields[i] if i < len(fields) else ""
FieldOrEmpty(fields, i) == IF i < Len(fields) THEN fields[i + 1] ELSE <<>>

\* SwissQRAddress(...): the attributes of the instance
Address(address_type, name, line1, line2, postal_code, city, country) ==
    [address_type |-> address_type, name |-> name,
     address_line_1 |-> line1, address_line_2 |-> line2,
     postal_code |-> postal_code, city |-> city, country |-> country]

\* a reader that steps over the tag alone when the tag is empty
parse_address_short_skip(fields, start_idx) ==
    IF start_idx >= Len(fields) THEN <<NoneV, start_idx>>
    ELSE LET address_type == FieldOrEmpty(fields, start_idx)
         IN  IF address_type = <<>> THEN <<NoneV, start_idx + 1>>
             ELSE IF address_type \in {<<"S">>, <<"K">>}
             THEN <<Some(Address(address_type,
                                 FieldOrEmpty(fields, start_idx + 1),
                                 FieldOrEmpty(fields, start_idx + 2),
                                 FieldOrEmpty(fields, start_idx + 3),
                                 IF address_type = <<"S">>
                                 THEN FieldOrEmpty(fields, start_idx + 4) ELSE <<>>,
                                 IF address_type = <<"S">>
                                 THEN FieldOrEmpty(fields, start_idx + 5) ELSE <<>>,
                                 FieldOrEmpty(fields, start_idx + 6))),
                    start_idx + 7>>
             ELSE <<NoneV, start_idx + 7>>

\* a reader that fills a combined address like a structured one
parse_address_combined_as_structured(fields, start_idx) ==
    IF start_idx >= Len(fields) THEN <<NoneV, start_idx>>
    ELSE LET address_type == FieldOrEmpty(fields, start_idx)
         IN  IF address_type \in {<<"S">>, <<"K">>}
             THEN <<Some(Address(address_type,
                                 FieldOrEmpty(fields, start_idx + 1),
                                 FieldOrEmpty(fields, start_idx + 2),
                                 FieldOrEmpty(fields, start_idx + 3),
                                 FieldOrEmpty(fields, start_idx + 4),
                                 FieldOrEmpty(fields, start_idx + 5),
                                 FieldOrEmpty(fields, start_idx + 6))),
                    start_idx + 7>>
             ELSE <<NoneV, start_idx + 7>>

\* a reader that takes every non-empty tag for a structured address
parse_address_any_tag(fields, start_idx) ==
    IF start_idx >= Len(fields) THEN <<NoneV, start_idx>>
    ELSE LET address_type == FieldOrEmpty(fields, start_idx)
         IN  IF address_type = <<>> THEN <<NoneV, start_idx + 7>>
             ELSE <<Some(Address(address_type,
                                 FieldOrEmpty(fields, start_idx + 1),
                                 FieldOrEmpty(fields, start_idx + 2),
                                 FieldOrEmpty(fields, start_idx + 3),
                                 IF address_type = <<"K">>
                                 THEN <<>> ELSE FieldOrEmpty(fields, start_idx + 4),
                                 IF address_type = <<"K">>
                                 THEN <<>> ELSE FieldOrEmpty(fields, start_idx + 5),
                                 FieldOrEmpty(fields, start_idx + 6))),
                    start_idx + 7>>

\* parse_address(fields, start_idx): <<Optional address, next index>>
parse_address(fields, start_idx) ==
    IF start_idx >= Len(fields) THEN <<NoneV, start_idx>>
    ELSE LET address_type == FieldOrEmpty(fields, start_idx)
             name == FieldOrEmpty(fields, start_idx + 1)
         IN  IF address_type = <<>> THEN <<NoneV, start_idx + 7>>
             ELSE IF address_type = <<"S">>
             THEN <<Some(Address(address_type, name,
                                 FieldOrEmpty(fields, start_idx + 2),
                                 FieldOrEmpty(fields, start_idx + 3),
                                 FieldOrEmpty(fields, start_idx + 4),
                                 FieldOrEmpty(fields, start_idx + 5),
                                 FieldOrEmpty(fields, start_idx + 6))),
                    start_idx + 7>>
             ELSE IF address_type = <<"K">>
             THEN <<Some(Address(address_type, name,
                                 FieldOrEmpty(fields, start_idx + 2),
                                 FieldOrEmpty(fields, start_idx + 3),
                                 <<>>, <<>>,
                                 FieldOrEmpty(fields, start_idx + 6))),
                    start_idx + 7>>
             ELSE <<NoneV, start_idx + 7>>

\* lines = qr_text.strip().split("\n"); fields = [line.strip() for line in lines]
SplitFields(qr_text) ==
    LET lines == Split(Strip(qr_text))
    IN  [i \in 1..Len(lines) |-> Strip(lines[i])]

\* a parser without the padding loop
NoPadding(fields) == fields

\* while len(fields) < 35: fields.append("")
PadFields(fields) ==
    IF Len(fields) < MinFields
    THEN fields \o [i \in 1..(MinFields - Len(fields)) |-> <<>>]
    ELSE fields

ParseError == [ok |-> FALSE]

\* a try block that keeps an empty amount as text and reads the currency as is
ParseFieldsNoDefaults(fields) ==
    IF Len(fields) <= 19 THEN ParseError
    ELSE [ok |-> TRUE,
          invoice |->
            [qr_type |-> fields[1],
             version |-> fields[2],
             coding_type |-> fields[3],
             iban |-> fields[4],
             creditor |-> parse_address(fields, 4)[1],
             ultimate_creditor |-> parse_address(fields, 11)[1],
             amount |-> Some(fields[19]),
             currency |-> fields[20],
             ultimate_debtor |-> parse_address(fields, 20)[1],
             reference_type |-> IF Len(fields) > 27 THEN fields[28] ELSE <<>>,
             reference |-> IF Len(fields) > 28 THEN fields[29] ELSE <<>>,
             unstructured_message |-> IF Len(fields) > 29 THEN fields[30] ELSE <<>>,
             trailer |-> IF Len(fields) > 30 THEN fields[31] ELSE DefaultTrailer,
             alternative_scheme_1 |-> IF Len(fields) > 31 THEN fields[32] ELSE <<>>,
             alternative_scheme_2 |-> IF Len(fields) > 32 THEN fields[33] ELSE <<>>]]

\* the try block of parse_swiss_qr; fields[k] without a guard raises IndexError
\* when k >= len(fields), which the except clause turns into ValueError
ParseFields(fields) ==
    IF Len(fields) <= 19 THEN ParseError
    ELSE [ok |-> TRUE,
          invoice |->
            [qr_type |-> fields[1],
             version |-> fields[2],
             coding_type |-> fields[3],
             iban |-> fields[4],
             creditor |-> parse_address(fields, 4)[1],
             ultimate_creditor |-> parse_address(fields, 11)[1],
             amount |-> IF fields[19] # <<>> THEN Some(fields[19]) ELSE NoneV,
             currency |-> IF fields[20] # <<>> THEN fields[20] ELSE DefaultCurrency,
             ultimate_debtor |-> parse_address(fields, 20)[1],
             reference_type |-> IF Len(fields) > 27 THEN fields[28] ELSE <<>>,
             reference |-> IF Len(fields) > 28 THEN fields[29] ELSE <<>>,
             unstructured_message |-> IF Len(fields) > 29 THEN fields[30] ELSE <<>>,
             trailer |-> IF Len(fields) > 30 THEN fields[31] ELSE DefaultTrailer,
             alternative_scheme_1 |-> IF Len(fields) > 31 THEN fields[32] ELSE <<>>,
             alternative_scheme_2 |-> IF Len(fields) > 32 THEN fields[33] ELSE <<>>]]

\* a parser that takes any text
parse_unmarked(text) == ParseFields(PadFields(SplitFields(text)))

\* a parser that refuses a text of fewer lines than the grammar has fields
parse_full_length_only(qr_text) ==
    IF qr_text = <<>> \/ ~StartsWithSPC(qr_text) THEN ParseError
    ELSE IF Len(SplitFields(qr_text)) < 33 THEN ParseError
    ELSE ParseFields(PadFields(SplitFields(qr_text)))

\* parse_swiss_qr(qr_text): it raises, or returns the SwissQRInvoice
parse_swiss_qr(qr_text) ==
    IF qr_text = <<>> \/ ~StartsWithSPC(qr_text) THEN ParseError
    ELSE ParseFields(PadFields(SplitFields(qr_text)))

\* SwissQRAddress.as_dict: asdict(self), a mapping of the seven fields
address_as_dict(self) ==
    [address_type |-> self.address_type, name |-> self.name,
     address_line_1 |-> self.address_line_1, address_line_2 |-> self.address_line_2,
     postal_code |-> self.postal_code, city |-> self.city, country |-> self.country]

\* an amount that went through a float: a last 0 behind the point is lost
AsFloatText(amount) ==
    IF amount # NoneV /\ Len(Get(amount)) >= 3 /\ Get(amount)[Len(Get(amount))] = "0"
       /\ \E i \in 1..(Len(Get(amount)) - 2) : Get(amount)[i] = "."
    THEN Some(SubSeq(Get(amount), 1, Len(Get(amount)) - 1))
    ELSE amount

\* a serialization that turns the amount into a number
as_dict_amount_as_number(self) ==
    [qr_type |-> self.qr_type, version |-> self.version,
     coding_type |-> self.coding_type, iban |-> self.iban,
     creditor |-> IF self.creditor # NoneV
                  THEN Some(address_as_dict(Get(self.creditor))) ELSE NoneV,
     ultimate_creditor |-> IF self.ultimate_creditor # NoneV
                           THEN Some(address_as_dict(Get(self.ultimate_creditor)))
                           ELSE NoneV,
     amount |-> AsFloatText(self.amount), currency |-> self.currency,
     ultimate_debtor |-> IF self.ultimate_debtor # NoneV
                         THEN Some(address_as_dict(Get(self.ultimate_debtor)))
                         ELSE NoneV,
     reference_type |-> self.reference_type, reference |-> self.reference,
     unstructured_message |-> self.unstructured_message, trailer |-> self.trailer,
     alternative_scheme_1 |-> self.alternative_scheme_1,
     alternative_scheme_2 |-> self.alternative_scheme_2]

\* SwissQRInvoice.as_dict: asdict(self) copies the scalar fields and turns a
\* nested address into a mapping; the three address entries are then set
\* again from the address's own as_dict
as_dict(self) ==
    LET result ==
          [qr_type |-> self.qr_type, version |-> self.version,
           coding_type |-> self.coding_type, iban |-> self.iban,
           creditor |-> IF self.creditor # NoneV
                        THEN Some(address_as_dict(Get(self.creditor))) ELSE NoneV,
           ultimate_creditor |-> IF self.ultimate_creditor # NoneV
                                 THEN Some(address_as_dict(Get(self.ultimate_creditor)))
                                 ELSE NoneV,
           amount |-> self.amount, currency |-> self.currency,
           ultimate_debtor |-> IF self.ultimate_debtor # NoneV
                               THEN Some(address_as_dict(Get(self.ultimate_debtor)))
                               ELSE NoneV,
           reference_type |-> self.reference_type, reference |-> self.reference,
           unstructured_message |-> self.unstructured_message,
           trailer |-> self.trailer,
           alternative_scheme_1 |-> self.alternative_scheme_1,
           alternative_scheme_2 |-> self.alternative_scheme_2]
    IN  [result EXCEPT
           !.creditor = IF self.creditor # NoneV
                        THEN Some(address_as_dict(Get(self.creditor))) ELSE @,
           !.ultimate_creditor = IF self.ultimate_creditor # NoneV
                                 THEN Some(address_as_dict(Get(self.ultimate_creditor)))
                                 ELSE @,
           !.ultimate_debtor = IF self.ultimate_debtor # NoneV
                               THEN Some(address_as_dict(Get(self.ultimate_debtor)))
                               ELSE @]

\* ------------------------------------------------------ decoder wrappers
\* the last accepted text of a native result list
RECURSIVE LastSPC(_)
LastSPC(res) ==
    IF res = <<>> THEN NoneV
    ELSE IF StartsWithSPC(res[Len(res)]) THEN Some(res[Len(res)])
    ELSE LastSPC(SubSeq(res, 1, Len(res) - 1))

\* the first text of a native result list that is accepted:
\* "isinstance(t, str) and t.strip() and t.startswith('SPC')"
RECURSIVE FirstSPC(_)
FirstSPC(res) ==
    IF res = <<>> THEN NoneV
    ELSE IF Strip(Head(res)) # <<>> /\ StartsWithSPC(Head(res)) THEN Some(Head(res))
    ELSE FirstSPC(Tail(res))

\* what the WeChat detector does on one image: it raises (in the array
\* conversion, the model load or detectAndDecode), or reports a list of texts
WeChatNative == {n \in [exc : BOOLEAN, res : ResultLists] : n.exc => n.res = <<>>}
NoWeChat == [exc |-> FALSE, res |-> <<>>]

\* _wechat_decode(img): available is WECHAT_AVAILABLE, cv2, numpy and the
\* four model files all being present
wechat_decode(available, nat) ==
    IF ~available THEN NoneV
    ELSE IF nat.exc THEN NoneV
    ELSE FirstSPC(nat.res)

\* what cv2.QRCodeDetector does on one image: detectAndDecodeMulti raises or
\* reports (ok, texts), with no texts when ok is false; detectAndDecode raises
\* or reports one text ("" = no code)
OpenCVNative ==
    {n \in [multi_exc : BOOLEAN, ok : BOOLEAN, texts : ResultLists,
            single_exc : BOOLEAN, text : Texts \cup {<<>>}] :
        /\ n.multi_exc => ~n.ok
        /\ ~n.ok => n.texts = <<>>
        /\ n.single_exc => n.text = <<>>}
NoOpenCV ==
    [multi_exc |-> FALSE, ok |-> FALSE, texts |-> <<>>,
     single_exc |-> FALSE, text |-> <<>>]

\* a wrapper that gives up when detectAndDecodeMulti raises
opencv_decode_multi_only(available, nat) ==
    IF ~available \/ nat.multi_exc THEN NoneV
    ELSE IF nat.ok /\ FirstSPC(nat.texts) # NoneV THEN FirstSPC(nat.texts)
    ELSE IF ~nat.single_exc /\ nat.text # <<>> /\ Strip(nat.text) # <<>>
            /\ StartsWithSPC(nat.text)
         THEN Some(nat.text)
         ELSE NoneV

\* _opencv_decode(img)
opencv_decode(available, nat) ==
    IF ~available THEN NoneV
    ELSE LET multi == IF ~nat.multi_exc /\ nat.ok THEN FirstSPC(nat.texts) ELSE NoneV
         IN  IF ~IsNone(multi) THEN multi
             ELSE IF ~nat.single_exc /\ nat.text # <<>> /\ Strip(nat.text) # <<>>
                     /\ StartsWithSPC(nat.text)
                  THEN Some(nat.text)
                  ELSE NoneV

\* ------------------------------------------------------------- scan state
VARIABLES
    pc,               \* position in scan_qr_code
    use_heuristic,    \* the caller's argument
    wechat_available, \* process-wide: the WeChat detector and its models load
    cv2_available,    \* process-wide: cv2 and numpy import
    page_count,       \* pages of the document
    doc,              \* the document handle: "none", "open", "closed"
    site,             \* which of the three candidate loops is running
    page_idx,         \* position in the page order of the running phase
    page_num,         \* the loaded page
    zi,               \* position in Zooms
    img_i,            \* position in the page's embedded-image list
    n_images,         \* length of the page's embedded-image list
    found_method,     \* the local found_method
    qr_text,          \* the local qr_text of the running candidate
    nat_w,            \* what the WeChat detector reported for the candidate
    nat_o,            \* what the OpenCV detector reported for the candidate
    calls,            \* decoder wrappers called on the running candidate, in order
    pages,            \* the pages loaded so far, with their phase, in order
    examined,         \* the candidates tried on the loaded page, in order
    accepted,         \* some candidate examined so far yielded an accepted payload
    files,            \* the artifacts in the output directory
    written,          \* the artifacts this invocation wrote, in order
    heuristic_calls,  \* calls of find_iban_in_markdown
    iban,             \* the local iban of the heuristic branch
    skipped,          \* the step just taken skipped a candidate whose render raised
    payload,          \* the field list a text handed to the parser is built from
    result            \* the returned dict

config == <<use_heuristic, wechat_available, cv2_available, page_count, payload>>
pos == <<site, page_idx, page_num, zi, img_i, n_images>>
dec == <<qr_text, nat_w, nat_o, calls>>
out == <<files, written, result>>
log == <<pages, examined, skipped>>
heur == <<heuristic_calls, iban>>
vars == <<pc, config, doc, pos, found_method, dec, log, accepted, out, heur>>

\* for zoom in (4.0, 6.0, 8.0)
Zooms == <<4, 6, 8>>

\* a page order that starts at the first page
PageOrderAscending(n) == [i \in 1..n |-> i - 1]

\* range(page_count - 1, -1, -1): the page numbers in the order visited
PageOrder(n) == [i \in 1..n |-> n - i]

\* an image order that starts at the last embedded image
ImageOrderReversed(n) == [i \in 1..n |-> n + 1 - i]

\* for info in page.get_images(full=True): the images in enumeration order
ImageOrder(n) == [i \in 1..n |-> i]

QR_JSON == "_qr.json"
QR_ERROR_JSON == "_qr_error.json"
QR_FALLBACK_JSON == "_qr_fallback.json"
Artifacts == {QR_JSON, QR_ERROR_JSON, QR_FALLBACK_JSON}

NoResult == [pending |-> TRUE]
NoMethod == "none"

\* "if qr_text": neither None nor the empty string
Truthy(o) == ~IsNone(o) /\ Get(o) # <<>>

\* the token find_iban_in_markdown returns when the markdown holds an IBAN
IBAN == <<"C", "H", "9", "3">>
IBAN_B == <<"C", "H", "5", "6">>
HeuristicReturns == {NoneV, Some(IBAN), Some(IBAN_B)}

\* no text is under parse outside the parser's own specification
NoPayload == <<>>

Init ==
    /\ pc = "open"
    /\ use_heuristic \in BOOLEAN
    /\ wechat_available \in BOOLEAN
    /\ cv2_available \in BOOLEAN
    /\ wechat_available => cv2_available
    /\ page_count \in 1..MaxPages
    /\ doc = "none"
    /\ site = "p1"
    /\ page_idx = 1
    /\ page_num = 0
    /\ zi = 1
    /\ img_i = 1
    /\ n_images = 0
    /\ found_method = NoMethod
    /\ qr_text = NoneV
    /\ nat_w = NoWeChat
    /\ nat_o = NoOpenCV
    /\ calls = <<>>
    /\ pages = <<>>
    /\ examined = <<>>
    /\ accepted = FALSE
    /\ files = [a \in Artifacts |-> NoneV]
    /\ written = <<>>
    /\ heuristic_calls = 0
    /\ iban = NoneV
    /\ skipped = FALSE
    /\ payload = NoPayload
    /\ result = NoResult

\* an exit by exception that skips the finally clause
RaiseLeaks ==
    /\ pc' = "raised"
    /\ doc' = doc

\* an exception leaves scan_qr_code: the finally clause closes the document
Raise ==
    /\ pc' = "raised"
    /\ doc' = IF doc = "open" THEN "closed" ELSE doc

\* doc = fitz.open(pdf_path)
Open ==
    /\ pc = "open"
    /\ \/ /\ doc' = "open"
          /\ pc' = "p1_page"
       \/ Raise
    /\ UNCHANGED <<config, pos, found_method, dec, log, accepted, out,
                   heur>>

\* Phase 1 loop head: the next page is loaded, or the loop is exhausted
Phase1Page ==
    /\ pc = "p1_page"
    /\ IF page_idx > page_count
       THEN /\ pc' = "p2_page"
            /\ page_idx' = 1
            /\ UNCHANGED <<doc, site, page_num, zi, img_i, n_images, pages, examined>>
       ELSE \/ /\ page_num' = PageOrder(page_count)[page_idx]
               /\ site' = "p1"
               /\ zi' = 1
               /\ pc' = "render"
               /\ pages' = Append(pages, [phase |-> 1, page |-> page_num'])
               /\ examined' = <<>>
               /\ UNCHANGED <<doc, page_idx, img_i, n_images>>
            \/ /\ Raise
               /\ UNCHANGED <<pos, pages, examined>>
    /\ skipped' = FALSE
    /\ UNCHANGED <<config, found_method, dec, accepted, out, heur>>

\* Phase 2 loop head: the next page is loaded and its images are listed
\* (either may raise), or the loop is exhausted
Phase2Page ==
    /\ pc = "p2_page"
    /\ IF page_idx > page_count
       THEN /\ pc' = "no_code"
            /\ UNCHANGED <<doc, pos, pages, examined>>
       ELSE \/ \E n \in 0..MaxImages :
                 /\ page_num' = PageOrder(page_count)[page_idx]
                 /\ n_images' = n
                 /\ img_i' = 1
                 /\ zi' = 1
                 /\ site' = IF n > 0 THEN "p2img" ELSE "p2page"
                 /\ pc' = "render"
                 /\ pages' = Append(pages, [phase |-> 2, page |-> page_num'])
                 /\ examined' = <<>>
                 /\ UNCHANGED <<doc, page_idx>>
            \/ /\ Raise
               /\ UNCHANGED <<pos, pages, examined>>
    /\ skipped' = FALSE
    /\ UNCHANGED <<config, found_method, dec, accepted, out, heur>>

\* "continue", or the end of a loop body: on to the next candidate
Advance ==
    CASE site = "p1" ->
           IF zi < Len(Zooms)
           THEN /\ zi' = zi + 1
                /\ pc' = "render"
                /\ UNCHANGED <<site, page_idx, page_num, img_i, n_images>>
           ELSE /\ page_idx' = page_idx + 1
                /\ pc' = "p1_page"
                /\ UNCHANGED <<site, page_num, zi, img_i, n_images>>
      [] site = "p2img" ->
           IF img_i < n_images
           THEN /\ img_i' = img_i + 1
                /\ pc' = "render"
                /\ UNCHANGED <<site, page_idx, page_num, zi, n_images>>
           ELSE /\ site' = "p2page"
                /\ zi' = 1
                /\ pc' = "render"
                /\ UNCHANGED <<page_idx, page_num, img_i, n_images>>
      [] site = "p2page" ->
           IF zi < Len(Zooms)
           THEN /\ zi' = zi + 1
                /\ pc' = "render"
                /\ UNCHANGED <<site, page_idx, page_num, img_i, n_images>>
           ELSE /\ page_idx' = page_idx + 1
                /\ pc' = "p2_page"
                /\ UNCHANGED <<site, page_num, zi, img_i, n_images>>

\* the locals of a finished loop body are dead: the next body assigns
\* qr_text before it reads it
Forget ==
    /\ qr_text' = NoneV
    /\ nat_w' = NoWeChat
    /\ nat_o' = NoOpenCV
    /\ calls' = <<>>

\* the candidate the loops are at
Candidate ==
    CASE site = "p1" ->
           [phase |-> 1, page |-> page_num, region |-> "lower_half", n |-> Zooms[zi]]
      [] site = "p2img" ->
           [phase |-> 2, page |-> page_num, region |-> "image",
            n |-> ImageOrder(n_images)[img_i]]
      [] site = "p2page" ->
           [phase |-> 2, page |-> page_num, region |-> "full_page", n |-> Zooms[zi]]

\* a scan in which a failed render gives up the rest of the page
RenderAbandonsPage ==
    /\ pc = "render"
    /\ examined' = Append(examined, Candidate)
    /\ \/ /\ pc' = "wechat"
          /\ skipped' = FALSE
          /\ UNCHANGED pos
       \/ /\ skipped' = TRUE
          /\ page_idx' = page_idx + 1
          /\ pc' = IF site = "p1" THEN "p1_page" ELSE "p2_page"
          /\ UNCHANGED <<site, page_num, zi, img_i, n_images>>
    /\ UNCHANGED <<config, doc, found_method, dec, pages, accepted, out, heur>>

\* the candidate is rendered (or extracted) and preprocessed; an exception
\* there is caught by the loop body's "except Exception: continue"
Render ==
    /\ pc = "render"
    /\ examined' = Append(examined, Candidate)
    /\ \/ /\ pc' = "wechat"
          /\ skipped' = FALSE
          /\ UNCHANGED pos
       \/ /\ Advance
          /\ skipped' = TRUE
    /\ UNCHANGED <<config, doc, found_method, dec, pages, accepted, out,
                   heur>>

\* a scan that never records the second decoder
MethodKept(text, method) == method

\* found_method after "qr_text = _wechat_decode(pre_img); if qr_text: ..."
MethodAfterWeChat(text, method) == IF Truthy(text) THEN "WeChat" ELSE method

\* found_method after "qr_text = _opencv_decode(pre_img); if qr_text: ..."
MethodAfterOpenCV(text, method) == IF Truthy(text) THEN "OpenCV" ELSE method

\* qr_text = _wechat_decode(pre_img): the first decoder of every candidate
WeChat ==
    /\ pc = "wechat"
    /\ \E nat \in (IF wechat_available THEN WeChatNative ELSE {NoWeChat}) :
         LET text == wechat_decode(wechat_available, nat)
         IN  /\ nat_w' = nat
             /\ qr_text' = text
             /\ calls' = Append(calls, "WeChat")
             /\ found_method' = MethodAfterWeChat(text, found_method)
             /\ pc' = IF Truthy(text) THEN "accept" ELSE "opencv"
    /\ UNCHANGED <<config, doc, pos, nat_o, log, accepted, out,
                   heur>>

\* the else branch: qr_text = _opencv_decode(pre_img)
OpenCV ==
    /\ pc = "opencv"
    /\ \E nat \in (IF cv2_available THEN OpenCVNative ELSE {NoOpenCV}) :
         LET text == opencv_decode(cv2_available, nat)
         IN  /\ nat_o' = nat
             /\ qr_text' = text
             /\ calls' = Append(calls, "OpenCV")
             /\ found_method' = MethodAfterOpenCV(text, found_method)
             /\ pc' = "accept"
    /\ UNCHANGED <<config, doc, pos, nat_w, log, accepted, out,
                   heur>>

\* "if qr_text and qr_text.startswith('SPC')"
Accepted(text) == Truthy(text) /\ StartsWithSPC(Get(text))

\* (a json_data that never receives the parsed invoice)
JsonDataRawOnly(text) == [raw_qr_text |-> text]

\* json_data: raw_qr_text, and parsed_invoice unless parse_swiss_qr raised
JsonData(text) ==
    LET parsed == parse_swiss_qr(text)
    IN  IF parsed.ok
        THEN [raw_qr_text |-> text, parsed_invoice |-> as_dict(parsed.invoice)]
        ELSE [raw_qr_text |-> text]

\* the dict returned for a decoded payload
FoundResult(text, method) ==
    LET json_data == JsonData(text)
    IN  [qr_text |-> Some(text),
         method |-> method,
         invoice |-> IF "parsed_invoice" \in DOMAIN json_data
                     THEN Some(json_data.parsed_invoice) ELSE NoneV,
         output_file |-> QR_JSON]

\* the accepted payload is written to {stem}_qr.json and returned; if
\* os.makedirs or open raises, the loop body's except clause skips the candidate
Accept ==
    /\ pc = "accept"
    /\ IF Accepted(qr_text)
       THEN /\ accepted' = TRUE
            /\ \/ /\ files' = [files EXCEPT ![QR_JSON] = Some(JsonData(Get(qr_text)))]
                  /\ written' = Append(written, QR_JSON)
                  /\ result' = FoundResult(Get(qr_text), found_method)
                  /\ pc' = "returned"
                  /\ doc' = "closed"
                  /\ UNCHANGED pos
                  /\ UNCHANGED dec
               \/ /\ Advance
                  /\ Forget
                  /\ UNCHANGED <<doc, out>>
       ELSE /\ Advance
            /\ Forget
            /\ UNCHANGED <<doc, accepted, out>>
    /\ UNCHANGED <<config, found_method, log, heur>>

ErrorJson == [error |-> "No QR code found"]
\* an error dict that names the wrong artifact
ErrorResultFallbackPath ==
    [error |-> "No QR code found", output_file |-> QR_FALLBACK_JSON]

\* return {"error": "No QR code found", "output_file": str(out_path)}
ErrorResult == [error |-> "No QR code found", output_file |-> QR_ERROR_JSON]

\* a scan that runs the heuristic unasked
HeuristicAlways == TRUE

\* "if use_heuristic"
HeuristicEnabled == use_heuristic

\* both phases are exhausted: {stem}_qr_error.json is written (os.makedirs or
\* open may raise, and nothing catches it), and without the heuristic the
\* error dict is returned
NoCode ==
    /\ pc = "no_code"
    /\ \/ /\ files' = [files EXCEPT ![QR_ERROR_JSON] = Some(ErrorJson)]
          /\ written' = Append(written, QR_ERROR_JSON)
          /\ IF HeuristicEnabled
             THEN /\ pc' = "heuristic"
                  /\ UNCHANGED <<doc, result>>
             ELSE /\ result' = ErrorResult
                  /\ pc' = "returned"
                  /\ doc' = "closed"
       \/ /\ Raise
          /\ UNCHANGED out
    /\ UNCHANGED <<config, pos, found_method, dec, log, accepted,
                   heur>>

\* a stub that borrows the parser's default currency
FallbackInvoiceWithCurrency(id) ==
    [qr_type |-> NoneV, version |-> NoneV, coding_type |-> NoneV,
     iban |-> Some(id), creditor |-> NoneV, amount |-> NoneV,
     currency |-> Some(DefaultCurrency)]

\* the stub written and returned for a heuristic match
FallbackInvoice(id) ==
    [qr_type |-> NoneV, version |-> NoneV, coding_type |-> NoneV,
     iban |-> Some(id), creditor |-> NoneV, amount |-> NoneV,
     currency |-> NoneV]

\* the dict dumped to {stem}_qr_fallback.json
FallbackJson(id) ==
    [raw_qr_text |-> NoneV, heuristic_iban |-> id,
     parsed_invoice |-> FallbackInvoice(id)]

\* (a heuristic result that names the error artifact)
HeuristicResultErrorPath(id) ==
    [qr_text |-> NoneV, method |-> "heuristic",
     invoice |-> Some(FallbackInvoice(id)), output_file |-> QR_ERROR_JSON]

\* the dict returned for a heuristic match
HeuristicResult(id) ==
    [qr_text |-> NoneV, method |-> "heuristic",
     invoice |-> Some(FallbackInvoice(id)), output_file |-> QR_FALLBACK_JSON]

\* iban = find_iban_in_markdown(output_dir), None if it raises; a match is
\* written to {stem}_qr_fallback.json (open may raise) and returned, and
\* without a match the error dict is returned
Heuristic ==
    /\ pc = "heuristic"
    /\ heuristic_calls' = heuristic_calls + 1
    /\ iban' \in HeuristicReturns
    /\ IF Truthy(iban')
         THEN \/ /\ files' = [files EXCEPT ![QR_FALLBACK_JSON] = Some(FallbackJson(Get(iban')))]
                 /\ written' = Append(written, QR_FALLBACK_JSON)
                 /\ result' = HeuristicResult(Get(iban'))
                 /\ pc' = "returned"
                 /\ doc' = "closed"
              \/ /\ Raise
                 /\ UNCHANGED out
         ELSE /\ result' = ErrorResult
              /\ pc' = "returned"
              /\ doc' = "closed"
              /\ UNCHANGED <<files, written>>
    /\ UNCHANGED <<config, pos, found_method, dec, log, accepted>>

\* what open(out_path, "w") leaves until json.dump's text is flushed: an
\* empty file, or a prefix of the text
Truncated == [truncated |-> TRUE]

\* the artifact whose "with open(...)" block the scan is about to enter
WriteSite ==
    CASE pc = "accept" /\ Accepted(qr_text) -> Some(QR_JSON)
      [] pc = "no_code" -> Some(QR_ERROR_JSON)
      [] pc = "heuristic" -> Some(QR_FALLBACK_JSON)
      [] OTHER -> NoneV

\* the process is killed inside a "with open(out_path, 'w')" block: the file
\* exists, json.dump's text is not (all) in it, nothing runs afterwards and
\* the locals are gone with the process
Crash ==
    /\ WriteSite # NoneV
    /\ files' = [files EXCEPT ![Get(WriteSite)] = Some(Truncated)]
    /\ pc' = "crashed"
    /\ found_method' = NoMethod
    /\ Forget
    /\ UNCHANGED <<config, doc, pos, log, accepted, written, result, heur>>

Next ==
    \/ Open
    \/ Phase1Page
    \/ Phase2Page
    \/ Render
    \/ WeChat
    \/ OpenCV
    \/ Accept
    \/ NoCode
    \/ Heuristic
    \/ Crash

Spec == Init /\ [][Next]_vars

\* the interpreter runs the one thread of the scan on: a step that can be
\* taken is taken
FairSpec == Spec /\ WF_vars(Next)

\* ------------------------------------------------- the parser on its own
\* "\n".join(fields)
RECURSIVE Join(_)
Join(fields) ==
    IF fields = <<>> THEN <<>>
    ELSE IF Len(fields) = 1 THEN fields[1]
    ELSE fields[1] \o <<"\n">> \o Join(Tail(fields))

\* an address window: the tag, then name, two lines, postal code, city, country
Window(tag, d) ==
    <<tag, <<"n", d>>, <<"a", d>>, <<"b", d>>, <<"p", d>>, <<"c", d>>, <<"C", "H">>>>

\* the 33 fields of the payload grammar, and fillers after them
AllFields(head, t1, t2, t3, amt, cur, rt, tr) ==
    <<head, <<"0", "2">>, <<"1">>, <<"C", "H", "9">>>>
    \o Window(t1, "1") \o Window(t2, "2")
    \o <<amt, cur>>
    \o Window(t3, "3")
    \o <<rt, <<"r", "f">>, <<"m", "s">>, tr, <<"x", "1">>, <<"x", "2">>>>
    \o [i \in 1..(MaxFields - 33) |-> <<"z">>]

Heads == {SPC, <<"S", "P", "C", "X">>, <<"X", "P", "C">>, <<" ", "S", "P", "C">>}
Tags == {<<>>, <<"S">>, <<"K">>, <<"X">>}
Amounts == {<<>>, <<"1", "2", "0", "0", ".", "0", "0">>, <<" ", "2", " ">>}
Currencies == {<<>>, <<"E", "U", "R">>}
RefTypes == {<<"Q", "R", "R">>, <<"A", "B", "C">>}
Trailers == {<<>>, <<"E", "P", "D">>}
Cuts == {0, 1, 4, 5, 8, 12, 19, 21, 28, 31, 34, 35, MaxFields}

\* the field lists the parser is run on: every cut of every field list
Payloads ==
    {SubSeq(AllFields(h, t1, t2, t3, amt, cur, rt, tr), 1, n) :
        h \in Heads, t1 \in Tags, t2 \in Tags, t3 \in Tags,
        amt \in Amounts, cur \in Currencies, rt \in RefTypes, tr \in Trailers,
        n \in Cuts}

\* the three windows parse_swiss_qr hands to parse_address
AddressOffsets == {4, 11, 20}

ParserInit ==
    /\ pc = "parse_input"
    /\ payload \in Payloads
    /\ qr_text = Some(Join(payload))
    /\ use_heuristic = FALSE
    /\ wechat_available = FALSE
    /\ cv2_available = FALSE
    /\ page_count = 1
    /\ doc = "none"
    /\ site = "p1"
    /\ page_idx = 1
    /\ page_num = 0
    /\ zi = 1
    /\ img_i = 1
    /\ n_images = 0
    /\ found_method = NoMethod
    /\ nat_w = NoWeChat
    /\ nat_o = NoOpenCV
    /\ calls = <<>>
    /\ pages = <<>>
    /\ examined = <<>>
    /\ skipped = FALSE
    /\ accepted = FALSE
    /\ files = [a \in Artifacts |-> NoneV]
    /\ written = <<>>
    /\ heuristic_calls = 0
    /\ iban = NoneV
    /\ result = NoResult

\* invoice = parse_swiss_qr(qr_text)
ParseCall ==
    /\ pc = "parse_input"
    /\ result' = parse_swiss_qr(Get(qr_text))
    /\ pc' = "parsed"
    /\ UNCHANGED <<config, doc, pos, found_method, dec, log, accepted, files,
                   written, heur>>

\* one of the three parse_address(fields, k) calls of parse_swiss_qr, on the
\* padded field list
AddressCall ==
    /\ pc = "parse_input"
    /\ StartsWithSPC(Get(qr_text))
    /\ \E start_idx \in AddressOffsets :
         LET r == parse_address(PadFields(SplitFields(Get(qr_text))), start_idx)
         IN  result' = [start_idx |-> start_idx, address |-> r[1], next_idx |-> r[2]]
    /\ pc' = "address_parsed"
    /\ UNCHANGED <<config, doc, pos, found_method, dec, log, accepted, files,
                   written, heur>>

\* json_data["parsed_invoice"] = invoice.as_dict()
AsDictCall ==
    /\ pc = "parsed"
    /\ result.ok
    /\ result' = [invoice |-> result.invoice, mapping |-> as_dict(result.invoice)]
    /\ pc' = "serialized"
    /\ UNCHANGED <<config, doc, pos, found_method, dec, log, accepted, files,
                   written, heur>>

\* the found branch of the scan on a decoded text: json_data is built and
\* the result dict is made from it
FoundCall ==
    /\ pc = "parse_input"
    /\ Accepted(qr_text)
    /\ result' = [json_data |-> JsonData(Get(qr_text)),
                  returned |-> FoundResult(Get(qr_text), "OpenCV")]
    /\ pc' = "found"
    /\ UNCHANGED <<config, doc, pos, found_method, dec, log, accepted, files,
                   written, heur>>

ParserNext ==
    \/ ParseCall
    \/ AddressCall
    \/ AsDictCall
    \/ FoundCall

ParserSpec == ParserInit /\ [][ParserNext]_vars

\* ---------------------------------------------- heuristic IBAN extractor
Digits == {"0", "1", "2", "3", "4", "5", "6", "7", "8", "9"}
UpperLetters ==
    <<"A", "B", "C", "D", "E", "F", "G", "H", "I", "J", "K", "L", "M",
      "N", "O", "P", "Q", "R", "S", "T", "U", "V", "W", "X", "Y", "Z">>
LowerLetters ==
    <<"a", "b", "c", "d", "e", "f", "g", "h", "i", "j", "k", "l", "m",
      "n", "o", "p", "q", "r", "s", "t", "u", "v", "w", "x", "y", "z">>
IsUpper(c) == \E i \in 1..26 : UpperLetters[i] = c
IsLower(c) == \E i \in 1..26 : LowerLetters[i] = c

\* [A-Za-z0-9]
IsAlnum(c) == c \in Digits \/ IsUpper(c) \/ IsLower(c)

\* [\s\dA-Za-z]
InClass(c) == c \in WS \/ IsAlnum(c)

\* \w
IsWord(c) == IsAlnum(c) \/ c = "_"

\* str.upper() of one character
Upper(c) ==
    IF IsLower(c) THEN UpperLetters[CHOOSE i \in 1..26 : LowerLetters[i] = c]
    ELSE c

\* str.isdigit()
IsDigit(t) == Len(t) > 0 /\ \A i \in 1..Len(t) : t[i] \in Digits

\* the slice t[a:b] of Python, a and b counted from 0
Slice(t, a, b) == SubSeq(t, a + 1, IF b < Len(t) THEN b ELSE Len(t))

\* \b in front of position p: exactly one of the two neighbours is a word
\* character, the ends of the text counting as none
Boundary(t, p) ==
    LET before == p > 1 /\ IsWord(t[p - 1])
        after == p <= Len(t) /\ IsWord(t[p])
    IN  before # after

MinRun == 10
MaxRun == 30

\* the last position of the match of \bCH[\s\dA-Za-z]{10,30}\b (IGNORECASE)
\* that starts at position i, or 0: the repetition is greedy and gives
\* characters back until a word boundary follows
MatchEnd(t, i) ==
    IF /\ i + 1 <= Len(t)
       /\ t[i] \in {"C", "c"}
       /\ t[i + 1] \in {"H", "h"}
       /\ Boundary(t, i)
    THEN LET stops == {j \in (i + 2)..Len(t) : ~InClass(t[j])}
             run == IF stops = {} THEN Len(t)
                    ELSE (CHOOSE j \in stops : \A k \in stops : j <= k) - 1
             last == IF run > i + 1 + MaxRun THEN i + 1 + MaxRun ELSE run
             ends == {e \in (i + 1 + MinRun)..last : Boundary(t, e + 1)}
         IN  IF ends = {} THEN 0
             ELSE CHOOSE e \in ends : \A k \in ends : k <= e
    ELSE 0

\* pattern.findall(text): the matches from left to right, none overlapping
RECURSIVE FindAllFrom(_, _)
FindAllFrom(t, from) ==
    LET starts == {i \in from..Len(t) : MatchEnd(t, i) # 0}
    IN  IF starts = {} THEN <<>>
        ELSE LET i == CHOOSE s \in starts : \A k \in starts : s <= k
             IN  <<SubSeq(t, i, MatchEnd(t, i))>> \o FindAllFrom(t, MatchEnd(t, i) + 1)

FindAll(t) == FindAllFrom(t, 1)

\* re.sub(r"[^A-Za-z0-9]", "", m).upper()
Clean(m) ==
    LET kept == SelectSeq(m, IsAlnum)
    IN  [i \in 1..Len(kept) |-> Upper(kept[i])]

StartsWithCH(t) == Len(t) >= 2 /\ t[1] = "C" /\ t[2] = "H"

\* (the length test widened downwards to 17)
PlausibleFromSeventeen(clean) ==
    /\ StartsWithCH(clean)
    /\ \/ Len(clean) = 21 /\ IsDigit(Slice(clean, 2, 4))
       \/ Len(clean) >= 17 /\ Len(clean) <= 25 /\ IsDigit(Slice(clean, 2, 4))

\* the tests of the loop body on one cleaned match: TRUE when it is returned
Plausible(clean) ==
    /\ StartsWithCH(clean)
    /\ \/ Len(clean) = 21 /\ IsDigit(Slice(clean, 2, 4))
       \/ Len(clean) >= 19 /\ Len(clean) <= 25 /\ IsDigit(Slice(clean, 2, 4))

\* (the loop over the matches giving up at the first match it rejects)
FirstMatchOnly(matches) ==
    IF matches = <<>> THEN NoneV
    ELSE IF Plausible(Clean(Head(matches))) THEN Some(Clean(Head(matches)))
    ELSE NoneV

\* for m in pattern.findall(text): the first match that is returned
RECURSIVE FirstPlausible(_)
FirstPlausible(matches) ==
    IF matches = <<>> THEN NoneV
    ELSE IF Plausible(Clean(Head(matches))) THEN Some(Clean(Head(matches)))
    ELSE FirstPlausible(Tail(matches))

\* (the loop over the files giving up at a file it cannot read)
RECURSIVE ScanFilesUntilUnreadable(_)
ScanFilesUntilUnreadable(md_files) ==
    IF md_files = <<>> THEN NoneV
    ELSE LET md == Head(md_files)
         IN  IF ~md.readable THEN NoneV
             ELSE LET hit == FirstPlausible(FindAll(md.text))
                  IN  IF IsNone(hit) THEN ScanFilesUntilUnreadable(Tail(md_files))
                      ELSE hit

\* for md in md_files: a file that cannot be read is skipped
RECURSIVE ScanFiles(_)
ScanFiles(md_files) ==
    IF md_files = <<>> THEN NoneV
    ELSE LET md == Head(md_files)
         IN  IF ~md.readable THEN ScanFiles(Tail(md_files))
             ELSE LET hit == FirstPlausible(FindAll(md.text))
                  IN  IF IsNone(hit) THEN ScanFiles(Tail(md_files))
                      ELSE hit

find_iban_in_markdown(output_dir) ==
    IF ~output_dir.exists \/ ~output_dir.is_dir THEN NoneV
    ELSE IF output_dir.md_files = <<>> THEN NoneV
    ELSE ScanFiles(output_dir.md_files)

\* --------------------------------------------- the extractor on its own
\* Total: CHF 1200.00
MdNoMatch ==
    <<"T", "o", "t", "a", "l", ":", " ", "C", "H", "F", " ", "1", "2", "0",
      "0", ".", "0", "0">>

\* IBAN: CH93 0076 2011 6238 5295 7.
MdIban ==
    <<"I", "B", "A", "N", ":", " ", "C", "H", "9", "3", " ", "0", "0", "7",
      "6", " ", "2", "0", "1", "1", " ", "6", "2", "3", "8", " ", "5", "2",
      "9", "5", " ", "7", ".">>

\* CH93 0076 2011 6238 5; ch56 0483 5012 3456 7800 9
MdShortThenLower ==
    <<"C", "H", "9", "3", " ", "0", "0", "7", "6", " ", "2", "0", "1", "1",
      " ", "6", "2", "3", "8", " ", "5", ";", " ", "c", "h", "5", "6", " ",
      "0", "4", "8", "3", " ", "5", "0", "1", "2", " ", "3", "4", "5", "6",
      " ", "7", "8", "0", "0", " ", "9">>

\* CHAB 0076 2011 6238 5295 7
MdLetters ==
    <<"C", "H", "A", "B", " ", "0", "0", "7", "6", " ", "2", "0", "1", "1",
      " ", "6", "2", "3", "8", " ", "5", "2", "9", "5", " ", "7">>

\* **CH93 0076 2011 6238 529**
MdNineteen ==
    <<"*", "*", "C", "H", "9", "3", " ", "0", "0", "7", "6", " ", "2", "0",
      "1", "1", " ", "6", "2", "3", "8", " ", "5", "2", "9", "*", "*">>

\* CH93 0076 2011 6238 5295 7 Bank AG Bern
MdTrailingWords ==
    <<"C", "H", "9", "3", " ", "0", "0", "7", "6", " ", "2", "0", "1", "1",
      " ", "6", "2", "3", "8", " ", "5", "2", "9", "5", " ", "7", " ", "B",
      "a", "n", "k", " ", "A", "G", " ", "B", "e", "r", "n">>

\* CH93 0076 2011 6238 5295 7\nCH56 0483 5012 3456 7800 9
MdTwoLines ==
    <<"C", "H", "9", "3", " ", "0", "0", "7", "6", " ", "2", "0", "1", "1",
      " ", "6", "2", "3", "8", " ", "5", "2", "9", "5", " ", "7", "\n",
      "C", "H", "5", "6", " ", "0", "4", "8", "3", " ", "5", "0", "1", "2",
      " ", "3", "4", "5", "6", " ", "7", "8", "0", "0", " ", "9">>

\* CH93 0076 2011 6238 5295 7123 45, CH93-0076
MdLong ==
    <<"C", "H", "9", "3", " ", "0", "0", "7", "6", " ", "2", "0", "1", "1",
      " ", "6", "2", "3", "8", " ", "5", "2", "9", "5", " ", "7", "1", "2",
      "3", " ", "4", "5", ",", " ", "C", "H", "9", "3", "-", "0", "0", "7",
      "6">>

MdTexts ==
    {MdNoMatch, MdIban, MdShortThenLower, MdLetters,
     MdNineteen, MdTrailingWords, MdTwoLines, MdLong}

\* CH93 0076 2011 6238 5295 7
IbanSpaced ==
    <<"C", "H", "9", "3", " ", "0", "0", "7", "6", " ", "2", "0", "1", "1",
      " ", "6", "2", "3", "8", " ", "5", "2", "9", "5", " ", "7">>

\* CH9300762011623852957
IbanClean ==
    <<"C", "H", "9", "3", "0", "0", "7", "6", "2", "0", "1", "1", "6", "2",
      "3", "8", "5", "2", "9", "5", "7">>

\* CH5604835012345678009
IbanLowerClean ==
    <<"C", "H", "5", "6", "0", "4", "8", "3", "5", "0", "1", "2", "3", "4",
      "5", "6", "7", "8", "0", "0", "9">>
\* a *.md file of the folder: one that cannot be read, or its text
Unreadable == [readable |-> FALSE, text |-> <<>>]
MdFiles == {Unreadable} \cup {[readable |-> TRUE, text |-> t] : t \in MdTexts}

\* the folder handed to the extractor: missing, not a directory, or a
\* directory with its *.md files in the order glob lists them
OutputDirs ==
    {[exists |-> FALSE, is_dir |-> FALSE, md_files |-> <<>>],
     [exists |-> TRUE, is_dir |-> FALSE, md_files |-> <<>>]}
    \cup {[exists |-> TRUE, is_dir |-> TRUE, md_files |-> f] :
             f \in SeqsUpTo(MdFiles, MaxFiles)}

HeuristicInit ==
    /\ pc = "heuristic_input"
    /\ payload \in {[import_ok |-> b, output_dir |-> d] :
                       b \in BOOLEAN, d \in OutputDirs}
    /\ qr_text = NoneV
    /\ use_heuristic = TRUE
    /\ wechat_available = FALSE
    /\ cv2_available = FALSE
    /\ page_count = 1
    /\ doc = "none"
    /\ site = "p1"
    /\ page_idx = 1
    /\ page_num = 0
    /\ zi = 1
    /\ img_i = 1
    /\ n_images = 0
    /\ found_method = NoMethod
    /\ nat_w = NoWeChat
    /\ nat_o = NoOpenCV
    /\ calls = <<>>
    /\ pages = <<>>
    /\ examined = <<>>
    /\ skipped = FALSE
    /\ accepted = FALSE
    /\ files = [a \in Artifacts |-> NoneV]
    /\ written = <<>>
    /\ heuristic_calls = 0
    /\ iban = NoneV
    /\ result = NoResult

\* try: import and call find_iban_in_markdown; except Exception: iban = None
ExtractorCall ==
    /\ pc = "heuristic_input"
    /\ iban' = IF payload.import_ok
               THEN find_iban_in_markdown(payload.output_dir)
               ELSE NoneV
    /\ heuristic_calls' = heuristic_calls + 1
    /\ pc' = "extracted"
    /\ UNCHANGED <<config, doc, pos, found_method, dec, log, accepted, out>>

\* one pass of the loop body on one match of one readable file
MatchCall ==
    /\ pc = "heuristic_input"
    /\ \E f \in 1..Len(payload.output_dir.md_files) :
          LET md == payload.output_dir.md_files[f]
          IN  /\ md.readable
              /\ \E k \in 1..Len(FindAll(md.text)) :
                    LET m == FindAll(md.text)[k]
                    IN  result' = [match |-> m,
                                   clean |-> Clean(m),
                                   returned |-> Plausible(Clean(m))]
    /\ pc' = "matched"
    /\ UNCHANGED <<config, doc, pos, found_method, dec, log, accepted, files,
                   written, heur>>

HeuristicNext ==
    \/ ExtractorCall
    \/ MatchCall

HeuristicSpec == HeuristicInit /\ [][HeuristicNext]_vars

\* ------------------------------------------------------- customer lookup
\* str.lower() of one character and of a text
Lower(c) ==
    IF IsUpper(c) THEN LowerLetters[CHOOSE i \in 1..26 : UpperLetters[i] = c]
    ELSE c
LowerText(t) == [i \in 1..Len(t) |-> Lower(t[i])]

IsNoSpace(c) == c # " "

\* str.replace(" ", "")
RemoveSpaces(t) == SelectSeq(t, IsNoSpace)

\* "a in b" for two texts
Contains(a, b) ==
    \E i \in 0..(Len(b) - Len(a)) : SubSeq(b, i + 1, i + Len(a)) = a

\* _load_customers(): the customers of the seed file, [] when it cannot be read
load_customers == payload.customers

\* for acc in c.get("accounts", []): the account and the invoice, spaces
\* removed, contain one another
AccountMatches(c, invoice) ==
    \E k \in 1..Len(c.accounts) :
        \/ Contains(RemoveSpaces(c.accounts[k]), RemoveSpaces(invoice))
        \/ Contains(RemoveSpaces(invoice), RemoveSpaces(c.accounts[k]))

\* the name of the customer is in the invoice string, case ignored
NameMatches(c, invoice) ==
    c.name # <<>> /\ Contains(LowerText(c.name), LowerText(invoice))

\* a value of one of the customer's addresses is in the invoice string, case
\* ignored
AddressMatches(c, invoice) ==
    \E k \in 1..Len(c.addresses) :
        \E v \in 1..Len(c.addresses[k]) :
            /\ c.addresses[k][v] # <<>>
            /\ Contains(LowerText(c.addresses[k][v]), LowerText(invoice))

\* the three tests of the loop body on one customer
Matches(c, invoice) ==
    \/ AccountMatches(c, invoice)
    \/ NameMatches(c, invoice)
    \/ AddressMatches(c, invoice)

\* for c in customers: the first customer a test accepts, or None
RECURSIVE FirstMatch(_, _)
FirstMatch(customers, invoice) ==
    IF customers = <<>> THEN NoneV
    ELSE IF Matches(Head(customers), invoice) THEN Some(Head(customers))
    ELSE FirstMatch(Tail(customers), invoice)

get_customer_by_invoice(invoice) == FirstMatch(load_customers, invoice)

\* ------------------------------------------------- the lookup on its own
\* CH93 0076 with the blank of the printed form, and without
IBAN_SPACED == <<"C", "H", "9", "3", " ", "0", "0", "7", "6">>
IBAN_LONG == <<"C", "H", "9", "3", "0", "0", "7", "6">>
IBAN_OTHER == <<"C", "H", "5", "6", "0", "4", "8", "3">>

\* seed customers: the holder of CH93 0076, the holder of another account
\* with an address abroad, the same with a Swiss address, one without account
Holder ==
    [name |-> <<"B", "o">>, accounts |-> <<IBAN_SPACED>>, addresses |-> <<>>]
OtherAbroad ==
    [name |-> <<"A", "l">>, accounts |-> <<IBAN_OTHER>>,
     addresses |-> <<<<<<"S">>, <<"A", "l">>, <<"W", "i", "e", "n">>, <<"A", "T">>>>>>]
OtherSwiss ==
    [name |-> <<"C", "y">>, accounts |-> <<IBAN_OTHER>>,
     addresses |-> <<<<<<"K">>, <<"C", "y">>, <<"Z", "u", "g">>, <<"C", "H">>>>>>]
NoAccount ==
    [name |-> <<"D", "i">>, accounts |-> <<>>, addresses |-> <<>>]
SeedCustomers == {Holder, OtherAbroad, OtherSwiss, NoAccount}

Invoices == {IBAN_LONG, IBAN_SPACED, IBAN_OTHER, <<"C", "H", "1", "1">>}

LookupInit ==
    /\ pc = "lookup_input"
    /\ payload \in {[customers |-> cs, invoice |-> inv] :
                       cs \in SeqsUpTo(SeedCustomers, MaxCustomers), inv \in Invoices}
    /\ qr_text = NoneV
    /\ use_heuristic = FALSE
    /\ wechat_available = FALSE
    /\ cv2_available = FALSE
    /\ page_count = 1
    /\ doc = "none"
    /\ site = "p1"
    /\ page_idx = 1
    /\ page_num = 0
    /\ zi = 1
    /\ img_i = 1
    /\ n_images = 0
    /\ found_method = NoMethod
    /\ nat_w = NoWeChat
    /\ nat_o = NoOpenCV
    /\ calls = <<>>
    /\ pages = <<>>
    /\ examined = <<>>
    /\ skipped = FALSE
    /\ accepted = FALSE
    /\ files = [a \in Artifacts |-> NoneV]
    /\ written = <<>>
    /\ heuristic_calls = 0
    /\ iban = NoneV
    /\ result = NoResult

\* cust = get_customer_by_invoice(search_val)
LookupCall ==
    /\ pc = "lookup_input"
    /\ result' = [cust |-> get_customer_by_invoice(payload.invoice)]
    /\ pc' = "looked_up"
    /\ UNCHANGED <<config, doc, pos, found_method, dec, log, accepted, files,
                   written, heur>>

LookupNext ==
    \/ LookupCall

LookupSpec == LookupInit /\ [][LookupNext]_vars

\* ------------------------------------------------------------ run_processing
\* json.dumps(..., ensure_ascii=False) of a string: the quote, the backslash
\* and the control characters are escaped, everything else is kept
JsonEscapeChar(c) ==
    IF c = "\"" THEN <<"\\", "\"">>
    ELSE IF c = "\\" THEN <<"\\", "\\">>
    ELSE IF c = "\n" THEN <<"\\", "n">>
    ELSE IF c = "\t" THEN <<"\\", "t">>
    ELSE IF c = "\r" THEN <<"\\", "r">>
    ELSE <<c>>

RECURSIVE JsonEscape(_)
JsonEscape(t) ==
    IF t = <<>> THEN <<>> ELSE JsonEscapeChar(Head(t)) \o JsonEscape(Tail(t))

JsonString(t) == <<"\"">> \o JsonEscape(t) \o <<"\"">>

JsonNull == <<"n", "u", "l", "l">>

\* an Optional[str] field
JsonOptionalString(o) == IF o = NoneV THEN JsonNull ELSE JsonString(Get(o))

\* the names of the keys of the dumped mappings
KeyText ==
    [qr_type |->
         <<"q", "r", "_", "t", "y", "p", "e">>,
     version |->
         <<"v", "e", "r", "s", "i", "o", "n">>,
     coding_type |->
         <<"c", "o", "d", "i", "n", "g", "_", "t", "y", "p", "e">>,
     iban |->
         <<"i", "b", "a", "n">>,
     creditor |->
         <<"c", "r", "e", "d", "i", "t", "o", "r">>,
     ultimate_creditor |->
         <<"u", "l", "t", "i", "m", "a", "t", "e", "_", "c", "r",
           "e", "d", "i", "t", "o", "r">>,
     amount |->
         <<"a", "m", "o", "u", "n", "t">>,
     currency |->
         <<"c", "u", "r", "r", "e", "n", "c", "y">>,
     ultimate_debtor |->
         <<"u", "l", "t", "i", "m", "a", "t", "e", "_", "d", "e",
           "b", "t", "o", "r">>,
     reference_type |->
         <<"r", "e", "f", "e", "r", "e", "n", "c", "e", "_", "t",
           "y", "p", "e">>,
     reference |->
         <<"r", "e", "f", "e", "r", "e", "n", "c", "e">>,
     unstructured_message |->
         <<"u", "n", "s", "t", "r", "u", "c", "t", "u", "r", "e",
           "d", "_", "m", "e", "s", "s", "a", "g", "e">>,
     trailer |->
         <<"t", "r", "a", "i", "l", "e", "r">>,
     alternative_scheme_1 |->
         <<"a", "l", "t", "e", "r", "n", "a", "t", "i", "v", "e",
           "_", "s", "c", "h", "e", "m", "e", "_", "1">>,
     alternative_scheme_2 |->
         <<"a", "l", "t", "e", "r", "n", "a", "t", "i", "v", "e",
           "_", "s", "c", "h", "e", "m", "e", "_", "2">>,
     address_type |->
         <<"a", "d", "d", "r", "e", "s", "s", "_", "t", "y", "p",
           "e">>,
     name |->
         <<"n", "a", "m", "e">>,
     address_line_1 |->
         <<"a", "d", "d", "r", "e", "s", "s", "_", "l", "i", "n",
           "e", "_", "1">>,
     address_line_2 |->
         <<"a", "d", "d", "r", "e", "s", "s", "_", "l", "i", "n",
           "e", "_", "2">>,
     postal_code |->
         <<"p", "o", "s", "t", "a", "l", "_", "c", "o", "d", "e">>,
     city |->
         <<"c", "i", "t", "y">>,
     country |->
         <<"c", "o", "u", "n", "t", "r", "y">>]

\* "key": value
JsonMember(key, value) == <<"\"">> \o KeyText[key] \o <<"\"", ":", " ">> \o value

\* the members of a mapping, joined by ", " and put in braces
RECURSIVE JsonJoin(_)
JsonJoin(members) ==
    IF members = <<>> THEN <<>>
    ELSE IF Len(members) = 1 THEN Head(members)
    ELSE Head(members) \o <<",", " ">> \o JsonJoin(Tail(members))

JsonObject(members) == <<"{">> \o JsonJoin(members) \o <<"}">>

\* json.dumps of the mapping of an address
JsonAddress(a) ==
    JsonObject(<<JsonMember("address_type", JsonString(a.address_type)),
                 JsonMember("name", JsonString(a.name)),
                 JsonMember("address_line_1", JsonString(a.address_line_1)),
                 JsonMember("address_line_2", JsonString(a.address_line_2)),
                 JsonMember("postal_code", JsonString(a.postal_code)),
                 JsonMember("city", JsonString(a.city)),
                 JsonMember("country", JsonString(a.country))>>)

JsonOptionalAddress(o) == IF o = NoneV THEN JsonNull ELSE JsonAddress(Get(o))

\* json.dumps(inv, ensure_ascii=False) of the invoice mapping of a scan
\* result: the fifteen entries of a parsed invoice, or the seven entries of
\* the heuristic's invoice, in the order they were set
json_dumps(inv) ==
    IF "trailer" \in DOMAIN inv
    THEN JsonObject(
           <<JsonMember("qr_type", JsonString(inv.qr_type)),
             JsonMember("version", JsonString(inv.version)),
             JsonMember("coding_type", JsonString(inv.coding_type)),
             JsonMember("iban", JsonString(inv.iban)),
             JsonMember("creditor", JsonOptionalAddress(inv.creditor)),
             JsonMember("ultimate_creditor", JsonOptionalAddress(inv.ultimate_creditor)),
             JsonMember("amount", JsonOptionalString(inv.amount)),
             JsonMember("currency", JsonString(inv.currency)),
             JsonMember("ultimate_debtor", JsonOptionalAddress(inv.ultimate_debtor)),
             JsonMember("reference_type", JsonString(inv.reference_type)),
             JsonMember("reference", JsonString(inv.reference)),
             JsonMember("unstructured_message", JsonString(inv.unstructured_message)),
             JsonMember("trailer", JsonString(inv.trailer)),
             JsonMember("alternative_scheme_1", JsonString(inv.alternative_scheme_1)),
             JsonMember("alternative_scheme_2", JsonString(inv.alternative_scheme_2))>>)
    ELSE JsonObject(
           <<JsonMember("qr_type", JsonOptionalString(inv.qr_type)),
             JsonMember("version", JsonOptionalString(inv.version)),
             JsonMember("coding_type", JsonOptionalString(inv.coding_type)),
             JsonMember("iban", JsonOptionalString(inv.iban)),
             JsonMember("creditor", JsonOptionalAddress(inv.creditor)),
             JsonMember("amount", JsonOptionalString(inv.amount)),
             JsonMember("currency", JsonOptionalString(inv.currency))>>)

\* inv.get("iban") or inv.get("IBAN") or inv.get("account"): a scan result
\* has the first key only; the heuristic's invoice holds it as an Optional
InvoiceIban(inv) ==
    IF "trailer" \in DOMAIN inv THEN inv.iban
    ELSE IF inv.iban = NoneV THEN <<>> ELSE Get(inv.iban)

\* " ".join([p for p in [name, city] if p])
JoinNonEmpty(name, city) ==
    IF name = <<>> THEN city
    ELSE IF city = <<>> THEN name
    ELSE name \o <<" ">> \o city

\* _normalize_invoice_field(inv) on the Optional invoice mapping of a scan
\* result: the IBAN when there is one, else the creditor's name and city,
\* else the JSON text of the mapping
normalize_invoice_field(inv) ==
    IF inv = NoneV THEN <<>>
    ELSE LET iban_text == InvoiceIban(Get(inv))
             creditor == Get(inv).creditor
             name == IF creditor = NoneV THEN <<>> ELSE Get(creditor).name
             city == IF creditor = NoneV THEN <<>> ELSE Get(creditor).city
             combined == JoinNonEmpty(name, city)
         IN  IF iban_text # <<>> THEN iban_text
             ELSE IF combined # <<>> THEN combined
             ELSE json_dumps(Get(inv))

\* ------------------------------------------- run_processing on its own
\* Under RunSpec the variables hold an invocation of run_processing: payload
\* is its arguments and the seed customers, pc its position, calls the steps
\* it took in order, written the files it wrote to the run directory in
\* order, use_heuristic the argument of its latest scan, and result its
\* locals and, once it returned, its exit code.
ParserNames == {"none", "docling", "marker", "all", "other"}

\* seed files: empty or unreadable, the holder of CH93 0076, a customer
\* without an account
RunCustomers == {<<>>, <<Holder>>, <<NoAccount>>}

RunInputs ==
    {[copied_pdf |-> p, parser_name |-> n, qr_only |-> q,
      structured_output_flag |-> s, customers |-> cs] :
        p \in BOOLEAN, n \in ParserNames, q \in BOOLEAN, s \in BOOLEAN,
        cs \in RunCustomers}

\* the branch of run_processing the arguments select
Mode ==
    IF payload.structured_output_flag /\ payload.parser_name = "none"
    THEN "structured_only"
    ELSE IF ~payload.copied_pdf THEN "no_pdf"
    ELSE IF payload.qr_only /\ payload.parser_name = "none" THEN "qr_only"
    ELSE IF payload.parser_name \in {"docling", "marker"} THEN "single"
    ELSE IF payload.parser_name = "all" THEN "all"
    ELSE "unknown"

\* what scan_qr_code returns: a found code, the heuristic's IBAN when the
\* heuristic is enabled, or the error dict
ScanReturns(h) ==
    {FoundResult(SPC_A, "WeChat"), FoundResult(SPC_B, "OpenCV"), ErrorResult}
    \cup (IF h THEN {HeuristicResult(IBAN)} ELSE {})

\* a call of scan_qr_trace returns {"qr_result": r} or raises
ScanOutcomes(h) == {NoneV} \cup {Some(r) : r \in ScanReturns(h)}

\* a conversion returns or raises
ConvertOutcomes == {"ok", "NotImplementedError", "Exception"}

\* a single handler that ends every failed run with 4
ExceptCodeAlwaysFour(kind) == 4

\* the two handlers around the body of run_processing
ExceptCode(kind) == IF kind = "NotImplementedError" THEN 3 ELSE 4

\* a check that lets a run without a customer go on
CustomerNeverMissing(cust) == FALSE

\* "if not cust"
CustomerMissing(cust) == cust = NoneV

\* a return that asks for a found code
QrOnlyReturnFoundOnly(qr_result) ==
    IF qr_result # NoneV /\ "error" \notin DOMAIN Get(qr_result) THEN 0 ELSE 1

\* return 0 if result and result.get("qr_result") is not None else 1
QrOnlyReturn(qr_result) == IF qr_result # NoneV THEN 0 ELSE 1

\* qr_info.get("invoice") is truthy
HasInvoice(qr_result) ==
    /\ qr_result # NoneV
    /\ "invoice" \in DOMAIN Get(qr_result)
    /\ Get(qr_result).invoice # NoneV

RunLocals ==
    [code |-> NoneV, first |-> NoneV, qr_result |-> NoneV, lookup |-> "not_run",
     raised |-> <<>>, kind |-> "none", errors |-> 0, outputs |-> 0]

RunInit ==
    /\ pc = "run"
    /\ payload \in RunInputs
    /\ result = RunLocals
    /\ qr_text = NoneV
    /\ use_heuristic = FALSE
    /\ wechat_available = FALSE
    /\ cv2_available = FALSE
    /\ page_count = 1
    /\ doc = "none"
    /\ site = "p1"
    /\ page_idx = 1
    /\ page_num = 0
    /\ zi = 1
    /\ img_i = 1
    /\ n_images = 0
    /\ found_method = NoMethod
    /\ nat_w = NoWeChat
    /\ nat_o = NoOpenCV
    /\ calls = <<>>
    /\ pages = <<>>
    /\ examined = <<>>
    /\ skipped = FALSE
    /\ accepted = FALSE
    /\ files = [a \in Artifacts |-> NoneV]
    /\ written = <<>>
    /\ heuristic_calls = 0
    /\ iban = NoneV

RunRest ==
    <<wechat_available, cv2_available, page_count, payload, doc, pos,
      found_method, qr_text, nat_w, nat_o, log, accepted, files, heur>>

\* the branch taken on entry; without a document, or with an unknown parser
\* name, the run ends with 2
RunDispatch ==
    /\ pc = "run"
    /\ IF Mode \in {"no_pdf", "unknown"}
       THEN /\ pc' = "exit"
            /\ result' = [result EXCEPT !.code = Some(2)]
       ELSE /\ pc' = CASE Mode = "structured_only" -> "structured_only"
                       [] Mode = "qr_only" -> "scan"
                       [] Mode = "single" -> "convert"
                       [] Mode = "all" -> "convert_all"
            /\ UNCHANGED result
    /\ UNCHANGED <<use_heuristic, calls, written, RunRest>>

\* structured-output-only mode: markdown and customer.json of an earlier run
\* are looked up in the run directory, then the structured-output step runs
StructuredOnly ==
    /\ pc = "structured_only"
    /\ \E o \in {"no_markdown", "no_customer", "unreadable_customer", "ok", "failed"} :
         /\ result' = [result EXCEPT
                         !.code = Some(CASE o = "ok" -> 0
                                         [] o = "failed" -> 4
                                         [] OTHER -> 2),
                         !.raised = IF o = "failed"
                                    THEN Append(@, "structured_output") ELSE @]
         /\ calls' = IF o \in {"ok", "failed"}
                     THEN Append(calls, "structured_output") ELSE calls
         /\ written' = IF o = "ok"
                       THEN Append(written, "structured_output.json") ELSE written
    /\ pc' = "exit"
    /\ UNCHANGED <<use_heuristic, RunRest>>

\* single-parser modes: parser_runnable.invoke, outside the inner try
Convert ==
    /\ pc = "convert"
    /\ \E o \in ConvertOutcomes :
         IF o = "ok"
         THEN /\ calls' = Append(calls, "convert")
              /\ pc' = "write_markdown"
              /\ UNCHANGED result
         ELSE /\ result' = [result EXCEPT !.code = Some(ExceptCode(o)),
                                          !.raised = Append(@, "convert"),
                                          !.kind = o]
              /\ pc' = "exit"
              /\ UNCHANGED calls
    /\ UNCHANGED <<use_heuristic, written, RunRest>>

\* single-parser modes: write_markdown in its own try; a failure returns 4
WriteMarkdown ==
    /\ pc = "write_markdown"
    /\ \E ok \in BOOLEAN :
         IF ok
         THEN /\ calls' = Append(calls, "write_markdown")
              /\ written' = Append(written, "markdown")
              /\ pc' = "scan"
              /\ UNCHANGED result
         ELSE /\ result' = [result EXCEPT !.code = Some(4),
                                          !.raised = Append(@, "write_markdown")]
              /\ pc' = "exit"
              /\ UNCHANGED <<calls, written>>
    /\ UNCHANGED <<use_heuristic, RunRest>>

Count(flags) == Len(SelectSeq(flags, LAMBDA f : f))

\* "all": both conversions, each in its own try, then the writes of the
\* markdown of those that returned, each in its own try
ConvertAll ==
    /\ pc = "convert_all"
    /\ \E docling_ok, marker_ok, docling_written, marker_written \in BOOLEAN :
         /\ docling_written => docling_ok
         /\ marker_written => marker_ok
         /\ calls' = calls \o (IF docling_ok THEN <<"convert">> ELSE <<>>)
                           \o (IF marker_ok THEN <<"convert">> ELSE <<>>)
                           \o (IF docling_written THEN <<"write_markdown">> ELSE <<>>)
                           \o (IF marker_written THEN <<"write_markdown">> ELSE <<>>)
         /\ written' = written \o (IF docling_written THEN <<"markdown">> ELSE <<>>)
                               \o (IF marker_written THEN <<"markdown">> ELSE <<>>)
         /\ result' = [result EXCEPT
                         !.errors = Count(<<~docling_ok, ~marker_ok,
                                            docling_ok /\ ~docling_written,
                                            marker_ok /\ ~marker_written>>),
                         !.outputs = Count(<<docling_written, marker_written>>),
                         !.raised = @ \o (IF docling_ok THEN <<>> ELSE <<"convert">>)
                                      \o (IF marker_ok THEN <<>> ELSE <<"convert">>)
                                      \o (IF docling_ok /\ ~docling_written
                                          THEN <<"write_markdown">> ELSE <<>>)
                                      \o (IF marker_ok /\ ~marker_written
                                          THEN <<"write_markdown">> ELSE <<>>)]
    /\ pc' = "scan"
    /\ UNCHANGED <<use_heuristic, RunRest>>

\* the first scan, use_heuristic=False; in "all" a raise is recorded and
\* leaves {"qr_result": None}, elsewhere it ends the run with 4
Scan ==
    /\ pc = "scan"
    /\ use_heuristic' = FALSE
    /\ calls' = Append(calls, "scan")
    /\ \E o \in ScanOutcomes(FALSE) :
         IF o # NoneV
         THEN /\ result' = [result EXCEPT !.first = o, !.qr_result = o]
              /\ pc' = IF Mode = "qr_only" THEN "customer" ELSE "rescan"
         ELSE IF Mode = "all"
         THEN /\ result' = [result EXCEPT !.errors = @ + 1,
                                          !.raised = Append(@, "scan")]
              /\ pc' = "rescan"
         ELSE /\ result' = [result EXCEPT !.code = Some(ExceptCode("Exception")),
                                          !.raised = Append(@, "scan")]
              /\ pc' = "exit"
    /\ UNCHANGED <<written, RunRest>>

\* if qr_result.get("qr_result") is None: the scan again, use_heuristic=True
Rescan ==
    /\ pc = "rescan"
    /\ IF result.qr_result = NoneV
       THEN /\ use_heuristic' = TRUE
            /\ calls' = Append(calls, "scan_heuristic")
            /\ \E o \in ScanOutcomes(TRUE) :
                 IF o # NoneV
                 THEN /\ result' = [result EXCEPT !.qr_result = o]
                      /\ pc' = "customer"
                 ELSE IF Mode = "all"
                 THEN /\ result' = [result EXCEPT !.errors = @ + 1,
                                                  !.raised = Append(@, "scan_heuristic")]
                      /\ pc' = "customer"
                 ELSE /\ result' = [result EXCEPT
                                      !.code = Some(ExceptCode("Exception")),
                                      !.raised = Append(@, "scan_heuristic")]
                      /\ pc' = "exit"
       ELSE /\ pc' = "customer"
            /\ UNCHANGED <<use_heuristic, calls, result>>
    /\ UNCHANGED <<written, RunRest>>

\* the locals after the handling of the scan result, without a lookup
AfterScan ==
    [result EXCEPT !.outputs = IF Mode = "all" /\ result.qr_result # NoneV
                               THEN @ + 1 ELSE @]

\* the step after the handling of the scan result
AfterCustomer(locals) ==
    IF Mode = "qr_only"
    THEN /\ pc' = "exit"
         /\ result' = [locals EXCEPT !.code = Some(QrOnlyReturn(locals.qr_result))]
    ELSE /\ pc' = IF Mode = "all" THEN "run_output" ELSE "structured_output"
         /\ result' = locals

\* the handling of the scan result: with an invoice the customer is looked
\* up; without a customer the run ends with 5, with one customer.json is
\* written
Customer ==
    /\ pc = "customer"
    /\ IF HasInvoice(result.qr_result)
       THEN LET search_val == normalize_invoice_field(Get(result.qr_result).invoice)
                cust == get_customer_by_invoice(search_val)
                locals == [AfterScan EXCEPT
                             !.lookup = IF cust = NoneV THEN "none" ELSE "found"]
            IN  /\ calls' = Append(calls, "lookup")
                /\ IF CustomerMissing(cust)
                   THEN /\ pc' = "exit"
                        /\ result' = [locals EXCEPT !.code = Some(5)]
                        /\ UNCHANGED written
                   ELSE \E ok \in BOOLEAN :
                          IF ok
                          THEN /\ written' = Append(written, "customer.json")
                               /\ AfterCustomer(locals)
                          ELSE /\ pc' = "exit"
                               /\ result' =
                                    [locals EXCEPT
                                       !.code = Some(ExceptCode("Exception")),
                                       !.raised = Append(@, "write_customer")]
                               /\ UNCHANGED written
       ELSE /\ AfterCustomer(AfterScan)
            /\ UNCHANGED <<calls, written>>
    /\ UNCHANGED <<use_heuristic, RunRest>>

\* single-parser modes: the structured-output step when it was asked for;
\* its failure is printed and the run still ends with 0
StructuredOutput ==
    /\ pc = "structured_output"
    /\ IF payload.structured_output_flag
       THEN /\ calls' = Append(calls, "structured_output")
            /\ \E ok \in BOOLEAN :
                 written' = IF ok THEN Append(written, "structured_output.json")
                            ELSE written
       ELSE UNCHANGED <<calls, written>>
    /\ result' = [result EXCEPT !.code = Some(0)]
    /\ pc' = "exit"
    /\ UNCHANGED <<use_heuristic, RunRest>>

\* "all": run_output.json is written, and the exit code weighs the outputs
\* against the recorded errors
RunOutput ==
    /\ pc = "run_output"
    /\ \E ok \in BOOLEAN :
         IF ok
         THEN /\ written' = Append(written, "run_output.json")
              /\ result' = [result EXCEPT
                              !.code = Some(IF result.errors > 0
                                               /\ ~(result.outputs > result.errors)
                                            THEN 4 ELSE 0)]
         ELSE /\ written' = written
              /\ result' = [result EXCEPT !.code = Some(ExceptCode("Exception")),
                                          !.raised = Append(@, "run_output")]
    /\ pc' = "exit"
    /\ UNCHANGED <<use_heuristic, calls, RunRest>>

RunNext ==
    \/ RunDispatch
    \/ StructuredOnly
    \/ Convert
    \/ WriteMarkdown
    \/ ConvertAll
    \/ Scan
    \/ Rescan
    \/ Customer
    \/ StructuredOutput
    \/ RunOutput

RunSpec == RunInit /\ [][RunNext]_vars

\* ------------------------------------------------ two scans side by side
\* Under ConcurrentSpec the variables hold two invocations of scan_qr_code
\* that run at the same time: payload, pc, written and result are functions
\* of the invocation, files is the file system both write to, keyed by output
\* directory, stem and suffix, and iban is what find_iban_in_markdown yields
\* in each output directory. The candidate sweep of an invocation works on
\* its own document handle and on detectors made for the call, so it is one
\* step; open(out_path, "w"), the dump that is flushed when the file is
\* closed, and the call of the heuristic are steps of their own. No call of
\* the file system raises here.
Invocations == {1, 2}
Folders == <<"in1", "in2">>
Stems == {"a", "b"}
Dirs == {"d1", "d2"}

\* what the sweep of the document yields
Codes == {NoneV, Some(SPC_A), Some(SPC_B)}

ScanArgs(folder) ==
    {[folder |-> folder, stem |-> s, output_dir |-> d, code |-> c, use_heuristic |-> h] :
        s \in Stems, d \in Dirs, c \in Codes, h \in BOOLEAN}

\* Path(output_dir) / (pdf_path.stem + suffix)
OutPath(args, suffix) == <<args.output_dir, args.stem, suffix>>
Paths == Dirs \X Stems \X Artifacts

\* a file that holds the start of one dump and the end of a longer one
Torn == [torn |-> TRUE]

\* the suffix of the artifact an invocation is writing
SuffixAt(position) ==
    CASE position \in {"open_qr", "dump_qr"} -> QR_JSON
      [] position \in {"open_error", "dump_error"} -> QR_ERROR_JSON
      [] position \in {"open_fallback", "dump_fallback"} -> QR_FALLBACK_JSON

\* the data an invocation dumps to the artifact it is writing
DumpAt(i, position) ==
    CASE position = "dump_qr" -> JsonData(Get(payload[i].code))
      [] position = "dump_error" -> ErrorJson
      [] position = "dump_fallback" -> FallbackJson(Get(iban[payload[i].output_dir]))

ConcurrentInit ==
    /\ pc = [i \in Invocations |-> "scan"]
    /\ payload \in {p \in [Invocations -> ScanArgs(Folders[1]) \cup ScanArgs(Folders[2])] :
                       /\ \A i \in Invocations : p[i].folder = Folders[i]
                       /\ p[1].stem = "a"
                       /\ p[1].output_dir = "d1"}
    /\ files = [p \in Paths |-> NoneV]
    /\ iban \in [Dirs -> {NoneV, Some(IBAN)}]
    /\ written = [i \in Invocations |-> <<>>]
    /\ result = [i \in Invocations |-> NoResult]
    /\ qr_text = NoneV
    /\ use_heuristic = FALSE
    /\ wechat_available = FALSE
    /\ cv2_available = FALSE
    /\ page_count = 1
    /\ doc = "none"
    /\ site = "p1"
    /\ page_idx = 1
    /\ page_num = 0
    /\ zi = 1
    /\ img_i = 1
    /\ n_images = 0
    /\ found_method = NoMethod
    /\ nat_w = NoWeChat
    /\ nat_o = NoOpenCV
    /\ calls = <<>>
    /\ pages = <<>>
    /\ examined = <<>>
    /\ skipped = FALSE
    /\ accepted = FALSE
    /\ heuristic_calls = 0

ConcurrentRest ==
    <<config, doc, pos, found_method, dec, log, accepted, heuristic_calls>>

\* the candidate sweep: an accepted payload leads to the write of _qr.json,
\* none to the write of _qr_error.json
Sweep(i) ==
    /\ pc[i] = "scan"
    /\ pc' = [pc EXCEPT ![i] = IF payload[i].code # NoneV THEN "open_qr"
                                ELSE "open_error"]
    /\ UNCHANGED <<files, written, result, iban, ConcurrentRest>>

\* with open(out_path, "w", encoding="utf-8") as f: the file is made or cut
\* to nothing
OpenArtifact(i) ==
    /\ pc[i] \in {"open_qr", "open_error", "open_fallback"}
    /\ files' = [files EXCEPT ![OutPath(payload[i], SuffixAt(pc[i]))] = Some(Truncated)]
    /\ pc' = [pc EXCEPT ![i] = CASE pc[i] = "open_qr" -> "dump_qr"
                                 [] pc[i] = "open_error" -> "dump_error"
                                 [] pc[i] = "open_fallback" -> "dump_fallback"]
    /\ UNCHANGED <<written, result, iban, ConcurrentRest>>

\* json.dump(...) and the close of the file: the text goes to the start of
\* the file; what another writer put there since the open is overwritten,
\* and when that was longer its end stays behind the new text
DumpArtifact(i) ==
    /\ pc[i] \in {"dump_qr", "dump_error", "dump_fallback"}
    /\ LET path == OutPath(payload[i], SuffixAt(pc[i]))
           data == DumpAt(i, pc[i])
       IN  /\ \E content \in (IF files[path] \in {Some(Truncated), Some(data)}
                              THEN {data} ELSE {data, Torn}) :
                 files' = [files EXCEPT ![path] = Some(content)]
           /\ written' = [written EXCEPT ![i] = Append(@, SuffixAt(pc[i]))]
    /\ IF pc[i] = "dump_qr"
       THEN /\ result' = [result EXCEPT
                            ![i] = FoundResult(Get(payload[i].code), "OpenCV")]
            /\ pc' = [pc EXCEPT ![i] = "returned"]
       ELSE IF pc[i] = "dump_fallback"
       THEN /\ result' = [result EXCEPT
                            ![i] = HeuristicResult(Get(iban[payload[i].output_dir]))]
            /\ pc' = [pc EXCEPT ![i] = "returned"]
       ELSE IF payload[i].use_heuristic
       THEN /\ pc' = [pc EXCEPT ![i] = "heuristic"]
            /\ UNCHANGED result
       ELSE /\ result' = [result EXCEPT ![i] = ErrorResult]
            /\ pc' = [pc EXCEPT ![i] = "returned"]
    /\ UNCHANGED <<iban, ConcurrentRest>>

\* iban = find_iban_in_markdown(output_dir): the markdown of the output
\* directory, which no scan writes
HeuristicLookup(i) ==
    /\ pc[i] = "heuristic"
    /\ IF iban[payload[i].output_dir] # NoneV
       THEN /\ pc' = [pc EXCEPT ![i] = "open_fallback"]
            /\ UNCHANGED result
       ELSE /\ result' = [result EXCEPT ![i] = ErrorResult]
            /\ pc' = [pc EXCEPT ![i] = "returned"]
    /\ UNCHANGED <<files, written, iban, ConcurrentRest>>

ConcurrentNext ==
    \E i \in Invocations :
        \/ Sweep(i)
        \/ OpenArtifact(i)
        \/ DumpArtifact(i)
        \/ HeuristicLookup(i)

ConcurrentSpec == ConcurrentInit /\ [][ConcurrentNext]_vars

\* ---------------------------------------------------------------- claims
Returned == pc = "returned"
FoundReturned == Returned /\ "method" \in DOMAIN result /\ result.method # "heuristic"
HeuristicReturned == Returned /\ "method" \in DOMAIN result /\ result.method = "heuristic"
NoCodeReturned == Returned /\ "error" \in DOMAIN result

IsPrefix(s, t) == Len(s) <= Len(t) /\ \A i \in 1..Len(s) : s[i] = t[i]

\* the candidates the specification lists for one page of Phase 1
ExpectedPhase1(page) ==
    <<[phase |-> 1, page |-> page, region |-> "lower_half", n |-> 4],
      [phase |-> 1, page |-> page, region |-> "lower_half", n |-> 6],
      [phase |-> 1, page |-> page, region |-> "lower_half", n |-> 8]>>

\* the candidates the specification lists for one page of Phase 2 that
\* holds k embedded images
ExpectedPhase2(page, k) ==
    [i \in 1..k |-> [phase |-> 2, page |-> page, region |-> "image", n |-> i]]
    \o <<[phase |-> 2, page |-> page, region |-> "full_page", n |-> 4],
         [phase |-> 2, page |-> page, region |-> "full_page", n |-> 6],
         [phase |-> 2, page |-> page, region |-> "full_page", n |-> 8]>>

LoadedPage == pages[Len(pages)]

\* C1: every invocation of scan_qr_code that returns has written exactly one
\* of the three artifacts; none leaves both the error and the fallback
\* artifact, or both the result and the error artifact, written by itself.
C1_ExactlyOneArtifact ==
    Returned =>
        /\ Len(written) = 1
        /\ written[1] \in Artifacts

\* C2: first success wins: once a candidate has yielded an accepted payload,
\* {stem}_qr.json is written and the scan has returned, so that no later
\* candidate is rendered or decoded.
C2_FirstSuccessWins ==
    accepted =>
        /\ FoundReturned
        /\ written = <<QR_JSON>>

\* C4: Phase 1 visits the pages in descending order N-1, ..., 0 and examines
\* the lower half of each at zooms 4, 6, 8 in that order before it moves to
\* the next page.
C4_Phase1Order ==
    /\ \A i \in 1..Len(pages) :
         i <= page_count => pages[i] = [phase |-> 1, page |-> page_count - i]
    /\ (pages # <<>> /\ LoadedPage.phase = 1) =>
         IsPrefix(examined, ExpectedPhase1(LoadedPage.page))
    /\ (pages # <<>> /\ pc \in {"p1_page", "p2_page"} /\ LoadedPage.phase = 1) =>
         examined = ExpectedPhase1(LoadedPage.page)
    /\ pc \in {"p2_page", "no_code", "heuristic"} => Len(pages) >= page_count

\* a three-page document whose Phase 1 ran to its end: pages 2, 1, 0
C4_Witness ==
    /\ page_count = 3
    /\ pc = "p2_page"
    /\ pages = <<[phase |-> 1, page |-> 2], [phase |-> 1, page |-> 1],
                 [phase |-> 1, page |-> 0]>>
    /\ examined = ExpectedPhase1(0)

\* C5: Phase 2 is entered only after every Phase 1 candidate has been examined
\* without yielding a payload.
C5_Phase2AfterFruitlessPhase1 ==
    (pc = "p2_page" /\ page_idx = 1) =>
        /\ ~accepted
        /\ Len(pages) = page_count
        /\ examined = ExpectedPhase1(0)

\* C6: Phase 2 visits the pages in descending order, and on each page examines
\* every embedded image in enumeration order and then the full page at zooms
\* 4, 6, 8; no full-page render precedes an embedded image of the same page.
C6_Phase2Order ==
    /\ \A i \in 1..Len(pages) :
         i > page_count =>
             /\ i <= 2 * page_count
             /\ pages[i] = [phase |-> 2, page |-> 2 * page_count - i]
    /\ (pages # <<>> /\ LoadedPage.phase = 2) =>
         IsPrefix(examined, ExpectedPhase2(LoadedPage.page, n_images))
    /\ (pages # <<>> /\ LoadedPage.phase = 2
          /\ pc \in {"p2_page", "no_code", "heuristic"}) =>
         examined = ExpectedPhase2(LoadedPage.page, n_images)
    /\ pc \in {"no_code", "heuristic"} => Len(pages) = 2 * page_count

\* a two-page document whose Phase 2 ran to its end, the last page holding
\* two embedded images
C6_Witness ==
    /\ page_count = 2
    /\ pc = "no_code"
    /\ n_images = 2
    /\ pages = <<[phase |-> 1, page |-> 1], [phase |-> 1, page |-> 0],
                 [phase |-> 2, page |-> 1], [phase |-> 2, page |-> 0]>>
    /\ examined = ExpectedPhase2(0, 2)

\* some text of the list starts with "SPC"
SomeMarked(res) == \E i \in 1..Len(res) : StartsWithSPC(res[i])

\* o holds the first text of the list, in order, that starts with "SPC"
IsFirstMarked(res, o) ==
    \E i \in 1..Len(res) :
        /\ o = Some(res[i])
        /\ StartsWithSPC(res[i])
        /\ \A j \in 1..(i - 1) : ~StartsWithSPC(res[j])

\* the WeChat detector handed back a text starting with "SPC"
WeChatReported == wechat_available /\ ~nat_w.exc /\ SomeMarked(nat_w.res)

\* C7: on every candidate the WeChat decoder is called first and the OpenCV
\* decoder only if WeChat returned no text, and a returned result names as its
\* method the decoder that produced its qr_text.
C7_DecoderPriority ==
    /\ calls \in {<<>>, <<"WeChat">>, <<"WeChat", "OpenCV">>}
    /\ Len(calls) = 2 => ~WeChatReported
    /\ FoundReturned =>
         /\ result.qr_text = qr_text
         /\ result.method \in {"WeChat", "OpenCV"}
         /\ result.method = "WeChat" <=> (Len(calls) = 1 /\ WeChatReported)
         /\ result.method = "OpenCV" <=> Len(calls) = 2

\* a result of the OpenCV decoder on a candidate where WeChat reported only
\* a text without the marker
C7_Witness ==
    /\ FoundReturned
    /\ result.method = "OpenCV"
    /\ calls = <<"WeChat", "OpenCV">>
    /\ wechat_available
    /\ nat_w.res = <<URL>>

\* what the WeChat wrapper returned on the running candidate is right
WeChatReturnRight ==
    (Len(calls) = 1) =>
        IF WeChatReported THEN IsFirstMarked(nat_w.res, qr_text) ELSE qr_text = NoneV

\* C8 as stated: a decoder that reports several results returns the first, in
\* order, that starts with "SPC" and none if none of them does; the scan never
\* returns a qr_text that does not start with "SPC".
C8_FirstMarkedOrNone ==
    /\ WeChatReturnRight
    /\ (Len(calls) = 2 /\ cv2_available /\ nat_o.ok /\ Len(nat_o.texts) >= 2) =>
         IF SomeMarked(nat_o.texts)
         THEN IsFirstMarked(nat_o.texts, qr_text)
         ELSE qr_text = NoneV
    /\ FoundReturned => StartsWithSPC(Get(result.qr_text))

\* C8 as amended: the WeChat wrapper returns the first reported text, in
\* order, that starts with "SPC", or none; the OpenCV wrapper returns the first
\* such text of detectAndDecodeMulti, and when that call reports none (or
\* raises) the text of a second, single-code detectAndDecode call if it starts
\* with "SPC", or none; a candidate without such a text is left for the next
\* one, and the scan never returns a qr_text that does not start with "SPC".
C8_FirstMarkedElseSinglePass ==
    /\ WeChatReturnRight
    /\ (Len(calls) = 2) =>
         IF cv2_available /\ nat_o.ok /\ SomeMarked(nat_o.texts)
         THEN IsFirstMarked(nat_o.texts, qr_text)
         ELSE IF cv2_available /\ ~nat_o.single_exc /\ StartsWithSPC(nat_o.text)
         THEN qr_text = Some(nat_o.text)
         ELSE qr_text = NoneV
    /\ (Returned /\ qr_text = NoneV) => ~FoundReturned
    /\ FoundReturned =>
         /\ StartsWithSPC(Get(result.qr_text))
         /\ files[QR_JSON] # NoneV
         /\ Get(files[QR_JSON]).raw_qr_text = Get(result.qr_text)

\* a result taken from the single-code call after detectAndDecodeMulti
\* reported two texts without the marker
C8_Witness ==
    /\ FoundReturned
    /\ calls = <<"WeChat", "OpenCV">>
    /\ nat_o.ok
    /\ nat_o.texts = <<URL, URL>>
    /\ nat_o.text = SPC_A
    /\ result.qr_text = Some(SPC_A)

InSeq(x, s) == \E i \in 1..Len(s) : s[i] = x

IsStubOf(inv, id) ==
    /\ inv.iban = Some(id)
    /\ \A k \in DOMAIN inv \ {"iban"} : inv[k] = NoneV

\* C11: when both phases are exhausted, the heuristic is enabled and it
\* returns an identifier, {stem}_qr_fallback.json holds raw_qr_text null,
\* heuristic_iban equal to the identifier and a parsed_invoice stub whose iban
\* is the identifier and whose other fields are all null, and the returned
\* result has qr_text none, method "heuristic", that stub as invoice and the
\* fallback artifact as output_file.
C11_FallbackArtifact ==
    (Returned /\ Truthy(iban)) =>
        /\ use_heuristic
        /\ Len(pages) = 2 * page_count
        /\ files[QR_FALLBACK_JSON] # NoneV
        /\ LET fallback == Get(files[QR_FALLBACK_JSON])
           IN  /\ DOMAIN fallback = {"raw_qr_text", "heuristic_iban", "parsed_invoice"}
               /\ fallback.raw_qr_text = NoneV
               /\ fallback.heuristic_iban = Get(iban)
               /\ IsStubOf(fallback.parsed_invoice, Get(iban))
               /\ DOMAIN result = {"qr_text", "method", "invoice", "output_file"}
               /\ result.qr_text = NoneV
               /\ result.method = "heuristic"
               /\ result.invoice = Some(fallback.parsed_invoice)
               /\ result.output_file = QR_FALLBACK_JSON

\* the heuristic returned the second identifier and the scan returned
C11_Witness ==
    /\ Returned
    /\ iban = Some(IBAN_B)
    /\ files[QR_FALLBACK_JSON] # NoneV

\* C12: the document handle opened by scan_qr_code is closed on every exit
\* path: after a return in either phase, after the no-code and heuristic
\* returns, and when an exception escapes page loading, image enumeration or
\* artifact writing; it is never open once the call has ended.
C12_DocumentClosed ==
    /\ Returned => doc = "closed"
    /\ pc = "raised" => doc \in {"none", "closed"}
    /\ (pc = "raised" /\ pages # <<>>) => doc = "closed"

\* an exception that escaped after the first page of Phase 2 was loaded
C12_Witness ==
    /\ pc = "raised"
    /\ doc = "closed"
    /\ Len(pages) > page_count

\* C13: the only failure that scan_qr_code propagates to its caller is the
\* failure to open the document; a failure while loading a page, enumerating
\* a page's images, rendering, preprocessing, decoding or running the
\* heuristic never escapes the call.
C13_OnlyOpenFailurePropagates ==
    pc = "raised" => doc = "none"

\* the candidates the specification lists for a loaded page
ExpectedFor(p) ==
    IF p.phase = 1 THEN ExpectedPhase1(p.page) ELSE ExpectedPhase2(p.page, n_images)

\* C14: a failure to render or preprocess one candidate skips only that
\* candidate: nothing is written or returned, the document stays open, and
\* the scan stands at the candidate that normally follows the failed one: the
\* next of the same page, or the head of the page loop once every candidate
\* of the page has been examined.
C14_RenderFailureSkipsCandidate ==
    skipped =>
        /\ doc = "open"
        /\ written = <<>>
        /\ result = NoResult
        /\ examined # <<>>
        /\ IsPrefix(examined, ExpectedFor(LoadedPage))
        /\ IF Len(examined) < Len(ExpectedFor(LoadedPage))
           THEN /\ pc = "render"
                /\ Candidate = ExpectedFor(LoadedPage)[Len(examined) + 1]
           ELSE /\ pc = (IF LoadedPage.phase = 1 THEN "p1_page" ELSE "p2_page")
                /\ page_idx = Len(pages) - (LoadedPage.phase - 1) * page_count + 1

\* the render of the first full-page candidate of a Phase 2 page with two
\* embedded images failed, and the scan stands at the zoom 6 candidate
C14_Witness ==
    /\ skipped
    /\ pc = "render"
    /\ n_images = 2
    /\ Len(examined) = 3
    /\ examined[3].region = "full_page"
    /\ Candidate = [phase |-> 2, page |-> LoadedPage.page, region |-> "full_page", n |-> 6]

\* the OpenCV wrapper's detectAndDecodeMulti pass found no accepted text
MultiPassEmpty ==
    nat_o.multi_exc \/ ~nat_o.ok \/ ~SomeMarked(nat_o.texts)

\* C15 as stated: an exception raised inside a native decoder invocation is
\* swallowed by the wrapper, which then returns none; an exception in the
\* primary decoder does not prevent the fallback decoder from being tried on
\* the same candidate.
C15_ExceptionThenNone ==
    /\ pc = "raised" => calls = <<>>
    /\ (Len(calls) = 1 /\ wechat_available /\ nat_w.exc) =>
         (qr_text = NoneV /\ pc = "opencv")
    /\ (Len(calls) = 2 /\ cv2_available
          /\ (nat_o.multi_exc \/ (MultiPassEmpty /\ nat_o.single_exc))) =>
         qr_text = NoneV

\* C15 as amended: no exception raised inside a native decoder invocation
\* leaves the wrapper; after one in WeChat the wrapper returns none and the
\* OpenCV wrapper is still called on the same candidate; after one in
\* OpenCV's detectAndDecodeMulti the wrapper still makes its single-code
\* detectAndDecode call and returns that text if it starts with "SPC", and
\* after one in the single-code call it returns none.
C15_ExceptionsSwallowed ==
    /\ pc = "raised" => calls = <<>>
    /\ (Len(calls) = 1 /\ wechat_available /\ nat_w.exc) =>
         (qr_text = NoneV /\ pc = "opencv")
    /\ (Len(calls) = 2 /\ cv2_available /\ nat_o.multi_exc) =>
         qr_text = IF ~nat_o.single_exc /\ StartsWithSPC(nat_o.text)
                   THEN Some(nat_o.text) ELSE NoneV
    /\ (Len(calls) = 2 /\ cv2_available /\ MultiPassEmpty /\ nat_o.single_exc) =>
         qr_text = NoneV

\* WeChat raised, OpenCV was tried on the same candidate, its multi-code call
\* raised too, and the single-code call delivered the returned payload
C15_Witness ==
    /\ FoundReturned
    /\ wechat_available
    /\ nat_w.exc
    /\ calls = <<"WeChat", "OpenCV">>
    /\ nat_o.multi_exc
    /\ result.qr_text = Some(nat_o.text)

\* C16: artifact writes are atomic with respect to a crash: whenever the
\* process stops, the output directory holds for each artifact either no
\* file or the complete artifact, never an empty or partial one.
C16_AtomicWrites ==
    \A a \in Artifacts : files[a] = NoneV \/ Get(files[a]) # Truncated

\* ------------------------------------------------------ claims: the parser
\* field k (counted from 0) of the text under parse as the grammar reads it:
\* the k-th line without its surrounding whitespace, empty if there is none
Raw(k) == IF k < Len(payload) THEN Strip(payload[k + 1]) ELSE <<>>

\* the text under parse begins with the three characters S, P, C
HeadMarked ==
    /\ payload # <<>>
    /\ Len(payload[1]) >= 3
    /\ payload[1][1] = "S" /\ payload[1][2] = "P" /\ payload[1][3] = "C"

\* the address the grammar gives for the 7-field window at offset s
ExpectedAddress(s) ==
    IF Raw(s) = <<"S">>
    THEN Some([address_type |-> <<"S">>, name |-> Raw(s + 1),
               address_line_1 |-> Raw(s + 2), address_line_2 |-> Raw(s + 3),
               postal_code |-> Raw(s + 4), city |-> Raw(s + 5),
               country |-> Raw(s + 6)])
    ELSE IF Raw(s) = <<"K">>
    THEN Some([address_type |-> <<"K">>, name |-> Raw(s + 1),
               address_line_1 |-> Raw(s + 2), address_line_2 |-> Raw(s + 3),
               postal_code |-> <<>>, city |-> <<>>, country |-> Raw(s + 6)])
    ELSE NoneV

\* C17: parse_swiss_qr raises for the empty string and for every string that
\* does not start with "SPC", and yields no record then.
C17_UnmarkedTextFails ==
    (pc = "parsed" /\ ~HeadMarked) =>
        /\ ~result.ok
        /\ DOMAIN result = {"ok"}

\* a text of full length whose first line is "XPC" has been refused
C17_Witness ==
    /\ pc = "parsed"
    /\ Len(payload) = MaxFields
    /\ payload[1] = <<"X", "P", "C">>
    /\ ~result.ok

\* C18: padding invariant: a payload that starts with "SPC" and has fewer
\* than 35 fields is padded with empty strings before any positional read,
\* so that parsing does not raise and every absent trailing field reads as
\* the empty string.
C18_PaddingInvariant ==
    (pc = "parsed" /\ HeadMarked /\ Len(payload) < MinFields) =>
        /\ result.ok
        /\ LET n == Len(payload)
               inv == result.invoice
               absent(a, s) ==
                   /\ (n <= s + 1 => a.name = <<>>)
                   /\ (n <= s + 2 => a.address_line_1 = <<>>)
                   /\ (n <= s + 3 => a.address_line_2 = <<>>)
                   /\ (n <= s + 4 => a.postal_code = <<>>)
                   /\ (n <= s + 5 => a.city = <<>>)
                   /\ (n <= s + 6 => a.country = <<>>)
           IN  /\ (n <= 1 => inv.version = <<>>)
               /\ (n <= 2 => inv.coding_type = <<>>)
               /\ (n <= 3 => inv.iban = <<>>)
               /\ (n <= 4 => inv.creditor = NoneV)
               /\ (inv.creditor # NoneV => absent(Get(inv.creditor), 4))
               /\ (n <= 11 => inv.ultimate_creditor = NoneV)
               /\ (inv.ultimate_creditor # NoneV => absent(Get(inv.ultimate_creditor), 11))
               /\ (n <= 18 => inv.amount = NoneV)
               /\ (n <= 19 => inv.currency = <<"C", "H", "F">>)
               /\ (n <= 20 => inv.ultimate_debtor = NoneV)
               /\ (inv.ultimate_debtor # NoneV => absent(Get(inv.ultimate_debtor), 20))
               /\ (n <= 27 => inv.reference_type = <<>>)
               /\ (n <= 28 => inv.reference = <<>>)
               /\ (n <= 29 => inv.unstructured_message = <<>>)
               /\ (n <= 30 => inv.trailer = <<>>)
               /\ (n <= 31 => inv.alternative_scheme_1 = <<>>)
               /\ (n <= 32 => inv.alternative_scheme_2 = <<>>)

\* a payload of five fields, the last being the tag "S" of a creditor whose
\* other fields are all absent, has been parsed
C18_Witness ==
    /\ pc = "parsed"
    /\ HeadMarked
    /\ Len(payload) = 5
    /\ payload[5] = <<"S">>
    /\ result.ok
    /\ result.invoice.creditor # NoneV

\* C19: an address window whose type tag is empty yields no address and moves
\* the cursor on by exactly 7 fields, and the fields read after a window
\* (ultimate creditor at 11, amount at 18, currency at 19, ultimate debtor at
\* 20, the reference fields at 27 to 32) are taken from their fixed offsets
\* whatever the tag and content of the earlier windows.
C19_EmptyTagSkipsSevenFields ==
    /\ (pc = "address_parsed" /\ Raw(result.start_idx) = <<>>) =>
         /\ result.address = NoneV
         /\ result.next_idx = result.start_idx + 7
    /\ (pc = "parsed" /\ HeadMarked) =>
         /\ result.ok
         /\ LET inv == result.invoice
            IN  /\ inv.ultimate_creditor = ExpectedAddress(11)
                /\ inv.amount = (IF Raw(18) = <<>> THEN NoneV ELSE Some(Raw(18)))
                /\ inv.currency = (IF Raw(19) = <<>> THEN <<"C", "H", "F">> ELSE Raw(19))
                /\ inv.ultimate_debtor = ExpectedAddress(20)
                /\ inv.reference_type = Raw(27)
                /\ inv.reference = Raw(28)
                /\ inv.unstructured_message = Raw(29)
                /\ inv.trailer = Raw(30)
                /\ inv.alternative_scheme_1 = Raw(31)
                /\ inv.alternative_scheme_2 = Raw(32)

\* the ultimate-creditor window of a full payload has an empty tag (and
\* filled fields behind it) while the creditor window before it is tagged
C19_Witness ==
    /\ pc = "address_parsed"
    /\ Len(payload) = MaxFields
    /\ result.start_idx = 11
    /\ Raw(4) = <<"K">>
    /\ Raw(11) = <<>>
    /\ Raw(12) # <<>>
    /\ result.next_idx = 18

\* the fields of a combined address: name, line1, line2 and country are the
\* window's fields 1, 2, 3 and 6, postal_code and city are empty
IsCombinedAt(o, s) ==
    /\ o # NoneV
    /\ Get(o).address_type = <<"K">>
    /\ Get(o).name = Raw(s + 1)
    /\ Get(o).address_line_1 = Raw(s + 2)
    /\ Get(o).address_line_2 = Raw(s + 3)
    /\ Get(o).postal_code = <<>>
    /\ Get(o).city = <<>>
    /\ Get(o).country = Raw(s + 6)

\* C20: for every address window tagged "K" the Address has empty
\* postal_code and city whatever the raw fields at window positions 4 and 5
\* hold, and its name, line1, line2 and country are window fields 1, 2, 3, 6.
C20_CombinedAddress ==
    /\ (pc = "address_parsed" /\ Raw(result.start_idx) = <<"K">>) =>
         IsCombinedAt(result.address, result.start_idx)
    /\ (pc = "parsed" /\ HeadMarked) =>
         /\ result.ok
         /\ Raw(4) = <<"K">> => IsCombinedAt(result.invoice.creditor, 4)
         /\ Raw(11) = <<"K">> => IsCombinedAt(result.invoice.ultimate_creditor, 11)
         /\ Raw(20) = <<"K">> => IsCombinedAt(result.invoice.ultimate_debtor, 20)

\* the ultimate-debtor window is tagged "K" and holds text at its positions
\* 4 and 5
C20_Witness ==
    /\ pc = "address_parsed"
    /\ result.start_idx = 20
    /\ Raw(20) = <<"K">>
    /\ Raw(24) # <<>>
    /\ Raw(25) # <<>>
    /\ result.address # NoneV

\* C21: when field 30 of the payload is empty or absent the parsed record's
\* trailer is the default "EPD"; a parsed record never has an empty trailer.
C21_TrailerDefault ==
    (pc = "parsed" /\ HeadMarked) =>
        /\ result.ok
        /\ result.invoice.trailer # <<>>
        /\ Raw(30) = <<>> => result.invoice.trailer = <<"E", "P", "D">>

\* C22: when field 18 is empty the record's amount is none (not an empty
\* string), when field 19 is empty the currency is "CHF", and otherwise
\* amount and currency are exactly fields 18 and 19.
C22_AmountAndCurrency ==
    (pc = "parsed" /\ HeadMarked) =>
        /\ result.ok
        /\ Raw(18) = <<>> => result.invoice.amount = NoneV
        /\ Raw(18) # <<>> => result.invoice.amount = Some(Raw(18))
        /\ result.invoice.amount # Some(<<>>)
        /\ Raw(19) = <<>> => result.invoice.currency = <<"C", "H", "F">>
        /\ Raw(19) # <<>> => result.invoice.currency = Raw(19)

\* a payload with the amount 1200.00 and no currency has been parsed
C22_Witness ==
    /\ pc = "parsed"
    /\ HeadMarked
    /\ Len(payload) = MaxFields
    /\ Raw(19) = <<>>
    /\ result.invoice.amount = Some(<<"1", "2", "0", "0", ".", "0", "0">>)
    /\ result.invoice.currency = <<"C", "H", "F">>

\* C23: every record the parser produces has a reference_type that is one of
\* "QRR", "SCOR", "NON" and the empty string.
C23_ReferenceTypeDomain ==
    (pc = "parsed" /\ result.ok) =>
        result.invoice.reference_type \in
            {<<"Q", "R", "R">>, <<"S", "C", "O", "R">>, <<"N", "O", "N">>, <<>>}

\* C24: round trip: as_dict gives back every scalar field of the record with
\* the identical value, the amount as the same string, and every nested
\* address field for field.
C24_AsDictRoundTrip ==
    pc = "serialized" =>
        LET self == result.invoice
            d == result.mapping
            same(o, m) ==
                IF o = NoneV THEN m = NoneV
                ELSE /\ m # NoneV
                     /\ DOMAIN Get(m) = DOMAIN Get(o)
                     /\ \A k \in DOMAIN Get(o) : Get(m)[k] = Get(o)[k]
        IN  /\ DOMAIN d = DOMAIN self
            /\ \A k \in {"qr_type", "version", "coding_type", "iban", "amount",
                          "currency", "reference_type", "reference",
                          "unstructured_message", "trailer",
                          "alternative_scheme_1", "alternative_scheme_2"} :
                 d[k] = self[k]
            /\ same(self.creditor, d.creditor)
            /\ same(self.ultimate_creditor, d.ultimate_creditor)
            /\ same(self.ultimate_debtor, d.ultimate_debtor)

\* a record with the amount 1200.00, a structured creditor and no ultimate
\* creditor has been serialized
C24_Witness ==
    /\ pc = "serialized"
    /\ result.invoice.amount = Some(<<"1", "2", "0", "0", ".", "0", "0">>)
    /\ result.mapping.amount = Some(<<"1", "2", "0", "0", ".", "0", "0">>)
    /\ result.invoice.creditor # NoneV
    /\ Get(result.mapping.creditor).address_type = <<"S">>
    /\ result.mapping.ultimate_creditor = NoneV

\* ----------------------------------------- claims: the heuristic extractor
\* only digits and upper-case letters are left
IsCleaned(c) == \A i \in 1..Len(c) : c[i] \in Digits \/ IsUpper(c[i])

\* the acceptance rule in the words of the specification
SaysAccepted(c) ==
    /\ Len(c) >= 4
    /\ c[1] = "C" /\ c[2] = "H"
    /\ c[3] \in Digits /\ c[4] \in Digits
    /\ (Len(c) = 21 \/ (Len(c) >= 19 /\ Len(c) <= 25))

\* the matches of the readable files, in file order and then match order
RECURSIVE MatchesInOrder(_)
MatchesInOrder(md_files) ==
    IF md_files = <<>> THEN <<>>
    ELSE (IF Head(md_files).readable THEN FindAll(Head(md_files).text) ELSE <<>>)
         \o MatchesInOrder(Tail(md_files))

IsReadable(md) == md.readable

\* C25: a matched substring is cleaned of every non-alphanumeric character
\* and upper-cased; it is accepted exactly when the cleaned token starts
\* with CH, has digits as third and fourth characters and is 21 long or
\* between 19 and 25 long.  A token of length 17 is rejected, and
\* "CH93 0076 2011 6238 5295 7" cleans to CH9300762011623852957 and is
\* accepted.
C25_HeuristicAcceptance ==
    pc = "matched" =>
        /\ IsCleaned(result.clean)
        /\ Len(result.clean)
             = Cardinality({i \in 1..Len(result.match) : IsAlnum(result.match[i])})
        /\ result.returned <=> SaysAccepted(result.clean)
        /\ Len(result.clean) = 17 => ~result.returned
        /\ result.match = IbanSpaced =>
              result.clean = IbanClean /\ result.returned

C25_Witness ==
    /\ pc = "matched"
    /\ result.match = IbanSpaced
    /\ result.clean = IbanClean
    /\ result.returned

\* C26: find_iban_in_markdown returns the first accepted token in file
\* order and, within a file, in match order; it returns none exactly when
\* no match of any readable file is accepted.  A rejected match stops
\* neither the later matches nor the later files.
C26_FirstAcceptedToken ==
    (pc = "extracted" /\ payload.import_ok) =>
        LET all == MatchesInOrder(payload.output_dir.md_files)
            hits == {i \in 1..Len(all) : SaysAccepted(Clean(all[i]))}
        IN  IF hits = {} THEN iban = NoneV
            ELSE iban = Some(Clean(all[CHOOSE i \in hits : \A k \in hits : i <= k]))

C26_Witness ==
    /\ pc = "extracted"
    /\ payload.import_ok
    /\ payload.output_dir.md_files
         = <<[readable |-> TRUE, text |-> MdLetters],
             [readable |-> TRUE, text |-> MdShortThenLower]>>
    /\ iban = Some(IbanLowerClean)

\* C27: the extractor never raises: a missing folder, a path that is no
\* folder, a folder without text artifacts and the absence of a match give
\* none, an unreadable artifact is skipped and the others are still
\* searched; a failure of the extractor leaves the scan with no IBAN
\* instead of failing it.
C27_ExtractorNeverRaises ==
    /\ pc # "raised"
    /\ pc = "extracted" =>
        LET d == payload.output_dir
            readable == SelectSeq(d.md_files, IsReadable)
        IN  /\ (~d.exists \/ ~d.is_dir \/ d.md_files = <<>>) => iban = NoneV
            /\ readable = <<>> => iban = NoneV
            /\ MatchesInOrder(d.md_files) = <<>> => iban = NoneV
            /\ ~payload.import_ok => iban = NoneV
            /\ payload.import_ok =>
                  iban = find_iban_in_markdown([d EXCEPT !.md_files = readable])

C27_Witness ==
    /\ pc = "extracted"
    /\ payload.import_ok
    /\ payload.output_dir.md_files
         = <<Unreadable, [readable |-> TRUE, text |-> MdIban]>>
    /\ iban = Some(IbanClean)

\* ------------------------------------------------ claims: the scan result
\* C28: every result scan_qr_code returns carries qr_text, method, invoice
\* and output_file, with method one of WeChat, OpenCV, heuristic or none,
\* the no-code-found outcome included.
C28_ResultFields ==
    Returned =>
        /\ {"qr_text", "method", "invoice", "output_file"} \subseteq DOMAIN result
        /\ result.method \in {"WeChat", "OpenCV", "heuristic", "none"}

\* the content of {stem}_qr.json once its write has completed
QrJsonWritten ==
    /\ files[QR_JSON] # NoneV
    /\ "truncated" \notin DOMAIN Get(files[QR_JSON])

ScanEnded == pc \in {"returned", "raised", "crashed"}

\* no page is visited twice in a phase and no candidate of a page twice: at
\* most 3 candidates for a page of Phase 1, and its embedded images and 3
\* more for a page of Phase 2
CandidateBounds ==
    /\ Len(pages) <= 2 * page_count
    /\ \A i, j \in 1..Len(pages) : pages[i] = pages[j] => i = j
    /\ \A i, j \in 1..Len(examined) : examined[i] = examined[j] => i = j
    /\ pages # <<>> =>
          Len(examined) <= (IF LoadedPage.phase = 1 THEN 3 ELSE n_images + 3)

\* C30: the scan examines at most 3 candidates per page in Phase 1 and the
\* embedded images and 3 more per page in Phase 2, each once, and when it
\* has ended it stands at a terminal outcome: found, no code found, or a
\* heuristic result (a document that cannot be opened, and a process that
\* is killed, set aside).
C30_TerminalOutcomeWithinBounds ==
    /\ CandidateBounds
    /\ ScanEnded => (Returned \/ (pc = "raised" /\ doc = "none") \/ pc = "crashed")

\* ------------------------------------------- claims: the parser, continued
\* C36: every record parse_swiss_qr produces has qr_type exactly "SPC".
C36_QrTypeIsSPC ==
    (pc = "parsed" /\ result.ok) => result.invoice.qr_type = SPC

InvoiceFields ==
    {"qr_type", "version", "coding_type", "iban", "creditor", "ultimate_creditor",
     "amount", "currency", "ultimate_debtor", "reference_type", "reference",
     "unstructured_message", "trailer", "alternative_scheme_1",
     "alternative_scheme_2"}

\* C37: parse_swiss_qr is total on marked input: for every text that starts
\* with "SPC", however many lines it has and whatever they hold, it returns
\* a record and does not raise; so the found branch of the scan always has a
\* parsed_invoice in json_data and an invoice in its result.
C37_TotalOnMarkedInput ==
    /\ (pc = "parsed" /\ HeadMarked) =>
          /\ result.ok
          /\ DOMAIN result.invoice = InvoiceFields
    /\ pc = "found" =>
          /\ HeadMarked
          /\ DOMAIN result.json_data = {"raw_qr_text", "parsed_invoice"}
          /\ result.returned.invoice = Some(result.json_data.parsed_invoice)

\* the marker alone, a single line, has been parsed and has gone through
\* the found branch
C37_Witness ==
    /\ pc = "found"
    /\ payload = <<SPC>>
    /\ result.returned.invoice # NoneV

IsKnownTag(t) == t \in {<<"S">>, <<"K">>}

\* C38: an address window whose tag is neither "S" nor "K" nor empty yields
\* no address and moves the cursor on by 7 without failing the parse; every
\* address produced has address_type "S" or "K", and a payload with an empty
\* or unrecognised creditor tag parses into a record without a creditor.
C38_UnknownTagYieldsNoAddress ==
    /\ (pc = "address_parsed" /\ ~IsKnownTag(Raw(result.start_idx))) =>
          /\ result.address = NoneV
          /\ result.next_idx = result.start_idx + 7
    /\ (pc = "address_parsed" /\ result.address # NoneV) =>
          IsKnownTag(Get(result.address).address_type)
    /\ (pc = "parsed" /\ HeadMarked) =>
          /\ result.ok
          /\ \A a \in {result.invoice.creditor, result.invoice.ultimate_creditor,
                       result.invoice.ultimate_debtor} :
                a # NoneV => IsKnownTag(Get(a).address_type)
          /\ ~IsKnownTag(Raw(4)) => result.invoice.creditor = NoneV

\* the creditor window of a full payload is tagged "X" and holds a name
C38_Witness ==
    /\ pc = "address_parsed"
    /\ Len(payload) = MaxFields
    /\ result.start_idx = 4
    /\ Raw(4) = <<"X">>
    /\ Raw(5) # <<>>
    /\ result.address = NoneV
    /\ result.next_idx = 11

\* --------------------------------------- claims: the scan result, continued
\* C39: in every result scan_qr_code returns, output_file names an artifact
\* written by this invocation, the last one it wrote: {stem}_qr.json for
\* method WeChat or OpenCV, {stem}_qr_fallback.json for method heuristic,
\* {stem}_qr_error.json for the no-code outcome.
C39_OutputFileIsLastArtifact ==
    Returned =>
        /\ written # <<>>
        /\ result.output_file = written[Len(written)]
        /\ files[result.output_file] # NoneV
        /\ FoundReturned =>
              /\ result.method \in {"WeChat", "OpenCV"}
              /\ result.output_file = QR_JSON
        /\ HeuristicReturned => result.output_file = QR_FALLBACK_JSON
        /\ NoCodeReturned => result.output_file = QR_ERROR_JSON

\* a heuristic result: the error artifact was written first, the fallback
\* artifact last
C39_Witness ==
    /\ HeuristicReturned
    /\ written = <<QR_ERROR_JSON, QR_FALLBACK_JSON>>
    /\ result.output_file = QR_FALLBACK_JSON

\* ------------------------------------------------ claims: customer lookup
\* the customers of the seed file that hold the invoice string as an account
Holders ==
    {k \in 1..Len(payload.customers) :
        \E a \in 1..Len(payload.customers[k].accounts) :
            RemoveSpaces(payload.customers[k].accounts[a]) = RemoveSpaces(payload.invoice)}

\* C35: when the invoice string is an IBAN held by exactly one customer of
\* the seed file, get_customer_by_invoice returns that customer, whatever
\* the order of the customers and whatever the names and addresses of the
\* others.
C35_AccountHolderReturned ==
    (pc = "looked_up" /\ Cardinality(Holders) = 1) =>
        result.cust = Some(payload.customers[CHOOSE k \in Holders : TRUE])

\* ------------------------------------------------- claims: run_processing
RunEnded == pc = "exit"
ExitCode == Get(result.code)
IsScanCall(c) == c \in {"scan", "scan_heuristic"}
ScanCalls == SelectSeq(calls, IsScanCall)
NoScan == ScanCalls = <<>>
FirstScanHandled ==
    /\ Mode \in {"single", "all"}
    /\ result.first # NoneV
    /\ pc \in {"customer", "structured_output", "run_output", "exit"}

\* C32: in the parser modes, once the first scan (heuristic disabled) has
\* returned and its result has been looked at, a second scan with
\* use_heuristic=True has been made exactly when the first scan found no QR
\* code.
C32_HeuristicRetryAfterNoCode ==
    FirstScanHandled
        => (("error" \in DOMAIN Get(result.first)) <=> InSeq("scan_heuristic", calls))

\* the steps of a single-parser run come in the order conversion, markdown
\* write, scan
SingleModeOrder ==
    /\ IsPrefix(calls, <<"convert", "write_markdown", "scan">>)
       \/ IsPrefix(<<"convert", "write_markdown", "scan">>, calls)
    /\ ~NoScan => written # <<>> /\ written[1] = "markdown"

\* C33 as stated: in the single-parser modes the conversion comes first, the
\* markdown write next and only then a scan; when the conversion or the
\* markdown write fails the run returns 4 and no scan was made.
C33_FailedConversionReturnsFour ==
    Mode = "single" =>
        /\ SingleModeOrder
        /\ (RunEnded /\ result.raised \in {<<"convert">>, <<"write_markdown">>})
               => (ExitCode = 4 /\ NoScan)

\* C33: in the single-parser modes the conversion comes first, the markdown
\* write next and only then a scan; when the conversion fails the run returns
\* 3 for a NotImplementedError and 4 for any other exception, when the
\* markdown write fails it returns 4, and in both cases no scan was made.
C33_FailedConversionEndsRun ==
    Mode = "single" =>
        /\ SingleModeOrder
        /\ (RunEnded /\ result.raised = <<"convert">>)
               => /\ ExitCode = (IF result.kind = "NotImplementedError" THEN 3 ELSE 4)
                  /\ NoScan
        /\ (RunEnded /\ result.raised = <<"write_markdown">>)
               => (ExitCode = 4 /\ NoScan)

C33_Witness ==
    /\ Mode = "single"
    /\ RunEnded
    /\ result.raised = <<"convert">>
    /\ result.kind = "NotImplementedError"
    /\ ExitCode = 3
    /\ NoScan

\* C34: when the scan result carries an invoice and the lookup finds no
\* customer, the run ends with 5, has written no customer.json and has not
\* run the structured-output step; customer.json is written only after a
\* lookup that found a customer.
C34_NoCustomerEndsWithFive ==
    /\ result.lookup = "none"
           => /\ RunEnded
              /\ ExitCode = 5
              /\ ~InSeq("customer.json", written)
              /\ ~InSeq("structured_output", calls)
    /\ InSeq("customer.json", written)
           => (result.lookup = "found" /\ InSeq("lookup", calls))

C34_Witness ==
    /\ Mode = "single"
    /\ payload.structured_output_flag
    /\ RunEnded
    /\ HasInvoice(result.qr_result)
    /\ result.lookup = "none"
    /\ ExitCode = 5

AloneResult(i) ==
    IF payload[i].code # NoneV THEN FoundResult(Get(payload[i].code), "OpenCV")
    ELSE IF payload[i].use_heuristic /\ iban[payload[i].output_dir] # NoneV
    THEN HeuristicResult(Get(iban[payload[i].output_dir]))
    ELSE ErrorResult

\* the artifacts an invocation leaves when it runs alone, as path and content
AloneArtifacts(i) ==
    IF payload[i].code # NoneV
    THEN {<<OutPath(payload[i], QR_JSON), JsonData(Get(payload[i].code))>>}
    ELSE {<<OutPath(payload[i], QR_ERROR_JSON), ErrorJson>>}
         \cup (IF payload[i].use_heuristic /\ iban[payload[i].output_dir] # NoneV
               THEN {<<OutPath(payload[i], QR_FALLBACK_JSON),
                       FallbackJson(Get(iban[payload[i].output_dir]))>>}
               ELSE {})

BothReturned == \A i \in Invocations : pc[i] = "returned"

\* C31: when two scans of different documents that ran at the same time have
\* both returned, each has returned what it returns alone and each artifact
\* it leaves alone is in the file system with the same content.
C31_ConcurrentScansAsAlone ==
    BothReturned =>
        \A i \in Invocations :
            /\ result[i] = AloneResult(i)
            /\ \A a \in AloneArtifacts(i) : files[a[1]] = Some(a[2])

\* the same for two scans whose artifacts have different paths
C31_DistinctPathsAsAlone ==
    (OutPath(payload[1], QR_JSON) # OutPath(payload[2], QR_JSON))
        => C31_ConcurrentScansAsAlone

====
